---------------------------- MODULE Spec2Model ----------------------------
(***************************************************************************)
(* Model of the broadcast layer of experimentor: the fan-in clients        *)
(* (core/pusher.py Pusher, models/listener.py Listener), the relay         *)
(* (core/publisher.py Publisher) and the fan-out clients                   *)
(* (core/subscriber.py thread Subscriber, core/subscriber_process.py       *)
(* process Subscriber).                                                    *)
(*                                                                         *)
(* The transport is modelled by what the code relies on: a PUSH socket     *)
(* gathers the frames sent with SNDMORE and hands the whole message to the *)
(* PULL side when the last frame is sent; the PULL side reads frame by     *)
(* frame, one message after the other per peer; a PUB socket hands a       *)
(* finished message to every connected SUB socket whose subscription is a  *)
(* prefix of the first frame.                                              *)
(***************************************************************************)
EXTENDS Integers, Sequences, FiniteSets, TLC

(* ------------------------------ bounds --------------------------------- *)
\* publish calls (Pusher.publish and Listener.publish together) in one run
MaxPub == 3

\* operations of the device layer in one run
MaxOps == 3

\* Signal.connect calls and Signal.emit calls in one run
MaxConnect == 3
MaxEmit == 3

(* ------------------------- program constants --------------------------- *)
PUBLISHER_EXIT_KEYWORD == "stop"
SUBSCRIBER_EXIT_KEYWORD == "stop"
PUBLISHER_READY == TRUE

(* ------------------------------ values --------------------------------- *)
\* A topic is a string; it is kept as a tuple of characters so that the
\* prefix match of a subscription is computed and not tabulated.
TopicEmpty == <<>>
TopicA == <<"a">>
TopicAB == <<"a", "b">>
Topics == {TopicEmpty, TopicA, TopicAB}

\* Python payloads. Every payload is a record with the same fields:
\* kind "str" (a Python str, in s) or kind "ndarray" (dtype, shape, the
\* memory order and the elements listed in logical, row-major order).
PyStr(s) ==
    [kind |-> "str", s |-> s, dtype |-> "", shape |-> <<>>, order |-> "C", elems |-> <<>>]
NdArray(dtype, shape, order, elems) ==
    [kind |-> "ndarray", s |-> "", dtype |-> dtype, shape |-> shape, order |-> order,
     elems |-> elems]

Arrays ==
    { NdArray("uint8", <<2>>, "C", <<7, 9>>),
      NdArray("uint16", <<2>>, "C", <<258, 3>>),
      NdArray("uint8", <<2, 2>>, "C", <<1, 2, 3, 4>>),
      NdArray("uint8", <<2, 2>>, "F", <<1, 2, 3, 4>>) }
Strs == { PyStr("stop"), PyStr("x") }

\* the record Signal.emit builds from its arguments, a generic payload
PyDict(args) ==
    [kind |-> "dict", s |-> args, dtype |-> "", shape |-> <<>>, order |-> "C", elems |-> <<>>]

IsStr(data) == data.kind = "str"
IsNdArray(data) == data.kind = "ndarray"

(* --------------------------- numeric buffers --------------------------- *)
ItemSize(dtype) == IF dtype = "uint16" THEN 2 ELSE 1

RECURSIVE Prod(_)
Prod(shape) == IF shape = <<>> THEN 1 ELSE Head(shape) * Prod(Tail(shape))

\* The elements of an array in the order in which they lie in memory: a
\* C-ordered array lies row-major, an F-ordered 2-d array column-major.
MemOrder(arr) ==
    IF arr.order = "F" /\ Len(arr.shape) = 2
    THEN LET r == arr.shape[1]
             c == arr.shape[2]
         IN  [k \in 1..(r * c) |->
                 arr.elems[((k - 1) % r) * c + ((k - 1) \div r) + 1]]
    ELSE arr.elems

\* little-endian bytes of one element
ElemBytes(v, dtype) ==
    IF ItemSize(dtype) = 2 THEN <<v % 256, (v \div 256) % 256>> ELSE <<v % 256>>

RECURSIVE BytesOf(_, _)
BytesOf(elems, dtype) ==
    IF elems = <<>> THEN <<>>
    ELSE ElemBytes(Head(elems), dtype) \o BytesOf(Tail(elems), dtype)

\* the buffer that socket.send(data) copies: the array's memory as it lies
ToBuffer(arr) == BytesOf(MemOrder(arr), arr.dtype)

\* np.frombuffer(buf, dtype): the elements read off the buffer in order
RECURSIVE FromBuffer(_, _)
FromBuffer(buf, dtype) ==
    IF Len(buf) < ItemSize(dtype) THEN <<>>
    ELSE IF ItemSize(dtype) = 2
         THEN <<buf[1] + 256 * buf[2]>> \o FromBuffer(SubSeq(buf, 3, Len(buf)), dtype)
         ELSE <<buf[1]>> \o FromBuffer(Tail(buf), dtype)

\* frombuffer raises when the buffer is no whole number of elements and
\* reshape raises when the element count does not fit the shape
DecodeOk(buf, dtype, shape) ==
    /\ Len(buf) % ItemSize(dtype) = 0
    /\ Len(buf) \div ItemSize(dtype) = Prod(shape)

\* np.frombuffer(buf, dtype=metadata['dtype']).reshape(metadata['shape']).copy()
DecodeArray(buf, dtype, shape) == NdArray(dtype, shape, "C", FromBuffer(buf, dtype))


(* ------------------------------- frames -------------------------------- *)
\* metadata record sent as JSON; a generic payload carries numpy=False only
NoMeta == [numpy |-> FALSE, dtype |-> "", shape |-> <<>>, i |-> 0]
NoObj == PyStr("")

\* One frame on the wire. enc is how the sender serialised it: "str"
\* (send_string), "json" (send_json), "pickle" (send_pyobj), "raw" (send of a
\* buffer). more is the SNDMORE flag. uid names the publish call that sent
\* the frame; no operation reads it.
StrFrame(s, more, uid) ==
    [enc |-> "str", s |-> s, meta |-> NoMeta, obj |-> NoObj, bytes |-> <<>>,
     more |-> more, uid |-> uid]
JsonFrame(meta, more, uid) ==
    [enc |-> "json", s |-> <<>>, meta |-> meta, obj |-> NoObj, bytes |-> <<>>,
     more |-> more, uid |-> uid]
PickleFrame(obj, more, uid) ==
    [enc |-> "pickle", s |-> <<>>, meta |-> NoMeta, obj |-> obj, bytes |-> <<>>,
     more |-> more, uid |-> uid]
RawFrame(bytes, more, uid) ==
    [enc |-> "raw", s |-> <<>>, meta |-> NoMeta, obj |-> NoObj, bytes |-> bytes,
     more |-> more, uid |-> uid]

\* recv_string succeeds on text: a string frame, or JSON text read as a string
RecvStringOk(f) == f.enc \in {"str", "json"}
RecvString(f) == IF f.enc = "str" THEN f.s ELSE <<"{">>
\* recv_json succeeds on a JSON frame only: no topic of the model, no pickle
\* and no numeric buffer of the model parses as a JSON object
RecvJsonOk(f) == f.enc = "json"
RecvJson(f) == f.meta
\* recv_pyobj succeeds on a pickle only
RecvPyobjOk(f) == f.enc = "pickle"
RecvPyobj(f) == f.obj

(* ----------------------------- participants ---------------------------- *)
Threads == {"T1", "T2"}
Pushers == {"P1"}
Listeners == {"L1"}
Relays == {"R1", "R2"}
\* PS: the Pusher that Publisher.stop() creates; TempSocket(r): the PUSH
\* socket "temp" of the bind-conflict recovery in the run of relay r
StopPusher == "PS"
TempSocket(r) == IF r = "R1" THEN "TMP1" ELSE "TMP2"
Subs == {"S1", "S2"}
\* the Pusher that the stop() of subscriber s creates
SubStopPusher(s) == IF s = "S1" THEN "PS1" ELSE "PS2"
\* the Pusher that Signal.connect creates
SignalPusher == "PSIG"
Clients ==
    Pushers \cup Listeners \cup {StopPusher} \cup {TempSocket(r) : r \in Relays}
        \cup {SubStopPusher(s) : s \in Subs} \cup {SignalPusher}

\* the model class M declares one Signal, named "sig"; A and B are live
\* instances of M
Instances == {"A", "B"}
SignalName == "sig"

\* S1 is a thread Subscriber (core/subscriber.py), S2 a process Subscriber
\* (core/subscriber_process.py); each is registered with the topic SubTopic.
SubKind(s) == IF s = "S1" THEN "thread" ELSE "process"
SubTopic(s) == IF s = "S1" THEN TopicAB ELSE TopicA

(* ----------------------------- device layer ---------------------------- *)
Devices == {"D1", "D2"}
Actuators == {"A1", "A2"}
Sensors == {"X1"}
Keys == {"k1", "k2"}

\* values: an instance of Q_ ("quantity"), a value that Q_(...) converts
\* ("number"), a value on which Q_(...) raises ("text"); mag is the magnitude
Quantity(mag) == [kind |-> "quantity", mag |-> mag]
Number(mag) == [kind |-> "number", mag |-> mag]
Text(mag) == [kind |-> "text", mag |-> mag]
\* None, and a local variable that was not assigned yet
NoValue == [kind |-> "none", mag |-> 0]
Unbound == [kind |-> "unbound", mag |-> 0]

\* the "connection" type in the properties of the device
ConnType(d) == IF d = "D1" THEN "GPIB" ELSE "daq"
\* how the hardware answers one initialize_driver call: well, with an error
\* from the driver's constructor, with an error from driver.initialize()
Faults == {"none", "construct", "initialize"}

\* the "limits" entry of the actuator's properties: A1 has one, A2 none
HasLimits(a) == a = "A1"
LimitMin(a) == Quantity(1)
LimitMax(a) == Quantity(2)

\* a key that is not in _properties
NoEntry ==
    [present |-> FALSE, new_value |-> NoValue, value |-> NoValue, old_value |-> NoValue,
     to_update |-> FALSE]

\* the model class declares the Setting "exposure_time" and the Feature
\* "max_width" with setting=True; both have a getter and a setter
SettingNames == {"exposure_time", "max_width"}
\* the values an instrument can hold
DeviceValues == {Number(1), Number(2)}

\* images the camera hands out in one behaviour, and in one read_camera()
MaxImages == 4
MaxBuffers == 2
\* calls of Actions made in one behaviour
MaxCalls == 3
\* threads the executor of a model class could run
Workers == {"W1", "W2"}
\* a worker without work item
NoWork == [id |-> 0, instance |-> "None", via |-> "None"]

NoCall ==
    [op |-> "none", target |-> "none", ready |-> FALSE, raised |-> "none",
     keys |-> {}, bad |-> {}, applied |-> {}, attempted |-> <<>>, driverCalls |-> 0,
     nops |-> 0]

VARIABLES
    stopEvent,   \* settings.GENERAL_STOP_EVENT, the relay's self._event
    th,          \* per thread: where it is inside a publish call
    lock,        \* Pusher.lock: the thread holding it, or "free"
    topic_i,     \* Pusher.topic_i
    pusher_i,    \* Pusher.i
    partial,     \* per client socket: frames sent with SNDMORE, message open
    pipe,        \* per client socket: frames of finished messages, in flight
    relay,       \* per relay process: position and locals of Publisher.run
    pubOut,      \* per relay: frames sent with SNDMORE on the PUB socket
    pubPort,     \* the relay bound to the fan-out port, or "free"
    pullPort,    \* the relay bound to the fan-in port, or "free"
    sub,         \* per subscriber: position in Subscriber.run
    subq,        \* per subscriber: messages delivered to its SUB socket
    stopper,     \* the caller of Publisher.stop(): idle, joining, returned
    substop,     \* per subscriber: the caller of its stop(): idle, joining,
                 \* returned, raised
    npub,        \* publish calls made so far
    sent,        \* history: the publish calls, in the order they were made
    wire,        \* history: every frame sent on each client socket
    relayed,     \* history: every message a relay broadcast
    received,    \* history: per subscriber, the messages its loop received
    calls,       \* history: per subscriber, the callback invocations
    signal,      \* the Signal object of the model class: its attributes
    sigHist,     \* history: what the calls on the signal did
    device,      \* per Device: driver and _params
    actuator,    \* per Actuator: _device and _value
    sensor,      \* per Sensor: the attribute device
    experiment,  \* the Experiment: devices (in dictionary order), loaded_devices
    driverLog,   \* history: the calls that reached a driver
    lastCall,    \* history: the last operation of the device layer, its outcome
    config,      \* the Properties object: per key its entry of _properties
    propHist,    \* history: per key, assigned since its last upgrade, the
                 \* value of its last upgrade
    setting,     \* the cache of the Setting, the value of the Feature, and
                 \* what the instrument of each instance holds
    setHist,     \* history: the last access to a setting, its outcome
    action,      \* the Action descriptor of the model class, the Action objects
                 \* the threads hold, the executor of the class
    actHist,     \* history: the Action calls, the bodies started
    program,     \* settings.publisher, the experiment, the application
    camera       \* the camera model and its reader thread

\* the variables of the broadcast layer
bcastVars == <<stopEvent, th, lock, topic_i, pusher_i, partial, pipe, relay, pubOut,
               pubPort, pullPort, sub, subq, stopper, substop, npub, sent, wire,
               relayed, received, calls>>

\* the variables of the layers built on it
sigVars == <<signal, sigHist>>
devVars == <<device, actuator, sensor, experiment, driverLog, lastCall>>
cfgVars == <<config, propHist, setting, setHist>>
actVars == <<action, actHist>>
appVars == <<sigVars, devVars, cfgVars, actVars, program, camera>>

vars == <<bcastVars, appVars>>

IdleThread == [pc |-> "idle", client |-> "P1", topic |-> TopicEmpty, data |-> NoObj, uid |-> 0]
NoFrame == StrFrame(<<>>, FALSE, 0)
\* pc: the position in Publisher.run; topic, metadata, data, i: its locals;
\* running: self.running; src: the peer whose message the PULL socket is
\* inside of. firstBind, retryBind ("none", "ok", "failed") and entered
\* (the loop was reached) record what run did so far.
FreshRelay(pc) ==
    [pc |-> pc, topic |-> TopicEmpty, metadata |-> NoMeta, data |-> NoFrame,
     src |-> "none", i |-> 0, running |-> FALSE, firstBind |-> "none",
     retryBind |-> "none", entered |-> FALSE]
LoopingRelay ==
    [FreshRelay("check") EXCEPT !.running = TRUE, !.firstBind = "ok", !.entered = TRUE]

\* the Signal after the class body ran (__set_name__): named, owned by the
\* class, no instance seen, no Pusher, no subscriber
InitSignal ==
    /\ signal = [owner |-> "M", instace |-> "None", pusher |-> "None", subscribers |-> <<>>]
    /\ sigHist = [connects |-> 0, raised |-> 0, pushers |-> 0, emits |-> 0,
                  published |-> 0, topics |-> [i \in Instances |-> {}]]

\* Device.__init__, Actuator.__init__, Sensor.__init__: no driver, no
\* parameter, no device attached, no value; the Sensor has no attribute
\* device at all
InitDevices ==
    /\ device = [d \in Devices |-> [driver |-> "None", params |-> [k \in Keys |-> NoValue]]]
    /\ actuator = [a \in Actuators |-> [device |-> "None", value |-> NoValue]]
    /\ sensor = [x \in Sensors |-> [device |-> "unset"]]
    /\ experiment = [devices |-> <<>>, loaded_devices |-> FALSE]
    /\ driverLog = <<>>
    /\ lastCall = NoCall

\* Properties(): no property. The class body ran: the Setting has the cache
\* entry None, the Feature the value None; every instrument holds 1.
InitConfig ==
    /\ config = [k \in Keys |-> NoEntry]
    /\ propHist = [pending |-> [k \in Keys |-> FALSE], upgraded |-> [k \in Keys |-> NoValue],
                   raised |-> "none", nops |-> 0]
    /\ setting = [cache |-> NoValue, value |-> NoValue,
                  dev |-> [i \in Instances |-> [n \in SettingNames |-> Number(1)]]]
    /\ setHist = [op |-> "none", name |-> "none", getter |-> FALSE, returned |-> NoValue,
                  known |-> NoValue, raised |-> "none",
                  lastRead |-> [n \in SettingNames |-> NoValue], nops |-> 0]

\* the class body ran (Action.__set_name__): the executor of the class has
\* no work; no instance was seen by the descriptor; no thread holds it
InitAction ==
    /\ action = [instance |-> "None", got |-> [t \in Threads |-> "None"], queue |-> <<>>,
                 worker |-> [w \in Workers |-> NoWork]]
    /\ actHist = [calls |-> <<>>, started |-> <<>>]

\* the module settings has no attribute publisher; no experiment and no
\* application was constructed
InitProgram ==
    program = [publisher |-> "unset", experiment |-> FALSE, expPublisher |-> "None",
               listener |-> "none", appPublisher |-> "None", op |-> "none",
               raised |-> "none", finalized |-> 0, finalizeRaised |-> 0, nops |-> 0]

\* BaslerCamera.__init__: keep_reading and continuous_reads_running are
\* False; no reader thread; stop_continuous_reads() was not called. covers
\* records whether continuous_reads() came before the stop call.
InitCamera ==
    camera = [keep_reading |-> FALSE, continuous_reads_running |-> FALSE,
              reader |-> "none", imgs |-> 0, caller |-> "idle", covers |-> FALSE,
              emitted |-> 0, emittedAfterStop |-> 0]

InitApp == InitSignal /\ InitDevices /\ InitConfig /\ InitAction /\ InitProgram /\ InitCamera

\* everything but the relays and the subscribers: clients idle, sockets empty
InitRest ==
    /\ InitApp
    /\ stopEvent = FALSE
    /\ th = [t \in Threads |-> IdleThread]
    /\ lock = [p \in Pushers |-> "free"]
    /\ topic_i = [p \in Pushers |-> [t \in Topics |-> 0]]
    /\ pusher_i = [p \in Pushers |-> 0]
    /\ partial = [c \in Clients |-> <<>>]
    /\ pipe = [c \in Clients |-> <<>>]
    /\ pubOut = [r \in Relays |-> <<>>]
    /\ subq = [s \in Subs |-> <<>>]
    /\ stopper = "idle"
    /\ substop = [s \in Subs |-> "idle"]
    /\ npub = 0
    /\ sent = <<>>
    /\ wire = [c \in Clients |-> <<>>]
    /\ relayed = <<>>
    /\ received = [s \in Subs |-> <<>>]
    /\ calls = [s \in Subs |-> <<>>]

\* the relay R1 was started, bound both ports and stands at its loop test
InitRelayLooping ==
    /\ relay = [r \in Relays |-> IF r = "R1" THEN LoopingRelay ELSE FreshRelay("unstarted")]
    /\ pubPort = "R1"
    /\ pullPort = "R1"

\* the subscribers S1 and S2 are constructed, connected and running
Init ==
    /\ InitRest
    /\ InitRelayLooping
    /\ sub = [s \in Subs |-> "check"]

\* no subscriber was constructed
InitNoSubs ==
    /\ InitRest
    /\ InitRelayLooping
    /\ sub = [s \in Subs |-> "none"]

\* no relay process was started yet and no subscriber constructed
InitBind ==
    /\ InitRest
    /\ relay = [r \in Relays |-> FreshRelay("unstarted")]
    /\ pubPort = "free"
    /\ pullPort = "free"
    /\ sub = [s \in Subs |-> "none"]

(* --------------------------- fan-in clients ---------------------------- *)
\* socket.send on a PUSH socket: with SNDMORE the frame waits in the open
\* message; the last frame hands the whole message to the pipe
SendFrame(c, f) ==
    /\ wire' = [wire EXCEPT ![c] = Append(@, f)]
    /\ IF f.more
       THEN /\ partial' = [partial EXCEPT ![c] = Append(@, f)]
            /\ pipe' = pipe
       ELSE /\ partial' = [partial EXCEPT ![c] = <<>>]
            /\ pipe' = [pipe EXCEPT ![c] = @ \o partial[c] \o <<f>>]

\* the metadata Pusher.publish builds
MetaOf(data, i) ==
    IF IsNdArray(data)
    THEN [numpy |-> TRUE, dtype |-> data.dtype, shape |-> data.shape, i |-> i]
    ELSE NoMeta

\* the payload frame Pusher.publish sends last
PayloadFrame(data, uid) ==
    IF IsNdArray(data) THEN RawFrame(ToBuffer(data), FALSE, uid)
    ELSE PickleFrame(data, FALSE, uid)

\* LockAvailable gone wrong: publish does not wait for the lock
LockIgnored(p, t) == TRUE

\* "with self.lock": a thread enters when no other thread holds the lock
LockAvailable(p, t) == lock[p] = "free"

\* Pusher.publish, up to and including the topic frame; nothing is sent
\* while settings.PUBLISHER_READY is false
PusherPublishTopic(t, p, data, topic) ==
    /\ th[t].pc = "idle"
    /\ npub < MaxPub
    /\ LockAvailable(p, t)
    /\ topic_i' = [topic_i EXCEPT ![p][topic] = @ + 1]
    /\ npub' = npub + 1
    /\ sent' = Append(sent, [client |-> p, topic |-> topic, data |-> data])
    /\ IF PUBLISHER_READY
       THEN /\ SendFrame(p, StrFrame(topic, TRUE, npub + 1))
            /\ lock' = [lock EXCEPT ![p] = t]
            /\ th' = [th EXCEPT ![t] = [pc |-> "sentTopic", client |-> p, topic |-> topic,
                                        data |-> data, uid |-> npub + 1]]
       ELSE UNCHANGED <<wire, partial, pipe, lock, th>>
    /\ UNCHANGED <<stopEvent, pusher_i, relay, pubOut, pubPort, pullPort, sub, subq,
                   stopper, substop, relayed, received, calls,
                   appVars>>

\* Pusher.publish: the metadata frame
PusherPublishMeta(t) ==
    /\ th[t].pc = "sentTopic"
    /\ th[t].client \in Pushers
    /\ LET p == th[t].client
       IN  SendFrame(p, JsonFrame(MetaOf(th[t].data, topic_i[p][th[t].topic]), TRUE, th[t].uid))
    /\ th' = [th EXCEPT ![t].pc = "sentMeta"]
    /\ UNCHANGED <<stopEvent, lock, topic_i, pusher_i, relay, pubOut, pubPort, pullPort,
                   sub, subq, stopper, substop, npub, sent, relayed, received, calls,
                   appVars>>

\* Pusher.publish: the payload frame, the count, and the end of "with"
PusherPublishData(t) ==
    /\ th[t].pc = "sentMeta"
    /\ LET p == th[t].client
       IN  /\ SendFrame(p, PayloadFrame(th[t].data, th[t].uid))
           /\ pusher_i' = [pusher_i EXCEPT ![p] = @ + 1]
           /\ lock' = [lock EXCEPT ![p] = IF @ = t THEN "free" ELSE @]
    /\ th' = [th EXCEPT ![t] = IdleThread]
    /\ UNCHANGED <<stopEvent, topic_i, relay, pubOut, pubPort, pullPort, sub, subq,
                   stopper, substop, npub, sent, relayed, received, calls,
                   appVars>>

\* Listener.publish: send_string(topic, SNDMORE)
ListenerPublishTopic(t, l, data, topic) ==
    /\ th[t].pc = "idle"
    /\ npub < MaxPub
    /\ npub' = npub + 1
    /\ sent' = Append(sent, [client |-> l, topic |-> topic, data |-> data])
    /\ SendFrame(l, StrFrame(topic, TRUE, npub + 1))
    /\ th' = [th EXCEPT ![t] = [pc |-> "sentTopic", client |-> l, topic |-> topic,
                                data |-> data, uid |-> npub + 1]]
    /\ UNCHANGED <<stopEvent, lock, topic_i, pusher_i, relay, pubOut, pubPort, pullPort,
                   sub, subq, stopper, substop, relayed, received, calls,
                   appVars>>

\* Listener.publish: send_pyobj(data)
ListenerPublishData(t) ==
    /\ th[t].pc = "sentTopic"
    /\ th[t].client \in Listeners
    /\ SendFrame(th[t].client, PickleFrame(th[t].data, FALSE, th[t].uid))
    /\ th' = [th EXCEPT ![t] = IdleThread]
    /\ UNCHANGED <<stopEvent, lock, topic_i, pusher_i, relay, pubOut, pubPort, pullPort,
                   sub, subq, stopper, substop, npub, sent, relayed, received, calls,
                   appVars>>


(* -------------------------------- relay -------------------------------- *)
Dead == {"done", "crashed", "fatal"}

\* a relay process that ends gives its ports back
PortsAfterExit(r) ==
    /\ pubPort' = IF pubPort = r THEN "free" ELSE pubPort
    /\ pullPort' = IF pullPort = r THEN "free" ELSE pullPort

\* the clients whose next frame the PULL socket of r may return: inside a
\* message the peer that sent it, between messages any peer with a message
PullSources(r) ==
    IF pullPort # r THEN {}
    ELSE IF relay[r].src # "none" THEN {c \in Clients : c = relay[r].src /\ pipe[c] # <<>>}
    ELSE {c \in Clients : pipe[c] # <<>>}

\* the pipe without the rest of its first message
RECURSIVE DropMessage(_)
DropMessage(q) ==
    IF q = <<>> THEN <<>>
    ELSE IF Head(q).more THEN DropMessage(Tail(q)) ELSE Tail(q)

\* the pipe q after its first frame f was read: a reader that goes on keeps
\* the rest; with a reader that dies the rest of the message is lost
AfterRead(q, f, dies) == IF dies /\ f.more THEN DropMessage(Tail(q)) ELSE Tail(q)

\* the position of the PULL socket after the frame f of client c was read
SrcAfter(c, f) == IF f.more THEN c ELSE "none"

\* "while not self._event.is_set()"
RelayLoopTest(r) ==
    /\ relay[r].pc = "check"
    /\ IF stopEvent
       THEN /\ relay' = [relay EXCEPT ![r].pc = "done", ![r].running = FALSE]
            /\ PortsAfterExit(r)
       ELSE /\ relay' = [relay EXCEPT ![r].pc = "recvTopic"]
            /\ UNCHANGED <<pubPort, pullPort>>
    /\ UNCHANGED <<stopEvent, th, lock, topic_i, pusher_i, partial, pipe, pubOut, sub,
                   subq, stopper, substop, npub, sent, wire, relayed, received, calls,
                   appVars>>

\* topic = listener.recv_string()
RelayRecvTopic(r) ==
    /\ relay[r].pc = "recvTopic"
    /\ \E c \in PullSources(r) :
         LET f == Head(pipe[c])
         IN  /\ pipe' = [pipe EXCEPT ![c] = AfterRead(@, f, ~RecvStringOk(f))]
             /\ IF RecvStringOk(f)
                THEN /\ relay' = [relay EXCEPT ![r].pc = "recvMeta",
                                               ![r].topic = RecvString(f),
                                               ![r].src = SrcAfter(c, f)]
                     /\ UNCHANGED <<pubPort, pullPort>>
                ELSE /\ relay' = [relay EXCEPT ![r].pc = "crashed"]
                     /\ PortsAfterExit(r)
    /\ UNCHANGED <<stopEvent, th, lock, topic_i, pusher_i, partial, pubOut, sub, subq,
                   stopper, substop, npub, sent, wire, relayed, received, calls,
                   appVars>>

\* metadata = listener.recv_json(); publisher.send_string(topic, SNDMORE);
\* publisher.send_json(metadata, SNDMORE)
RelayRecvMeta(r) ==
    /\ relay[r].pc = "recvMeta"
    /\ \E c \in PullSources(r) :
         LET f == Head(pipe[c])
         IN  /\ pipe' = [pipe EXCEPT ![c] = AfterRead(@, f, ~RecvJsonOk(f))]
             /\ IF RecvJsonOk(f)
                THEN /\ relay' = [relay EXCEPT ![r].pc = "recvData",
                                               ![r].metadata = RecvJson(f),
                                               ![r].src = SrcAfter(c, f)]
                     /\ pubOut' = [pubOut EXCEPT ![r] =
                                     <<StrFrame(relay[r].topic, TRUE, f.uid),
                                       JsonFrame(RecvJson(f), TRUE, f.uid)>>]
                     /\ UNCHANGED <<pubPort, pullPort>>
                ELSE /\ relay' = [relay EXCEPT ![r].pc = "crashed"]
                     /\ pubOut' = pubOut
                     /\ PortsAfterExit(r)
    /\ UNCHANGED <<stopEvent, th, lock, topic_i, pusher_i, partial, sub, subq, stopper, substop,
                   npub, sent, wire, relayed, received, calls,
                   appVars>>

\* the payload frame the relay sends for the frame f it received: the bytes
\* as they came for a numeric payload, the object pickled again otherwise
Forward(f, numpy) ==
    IF numpy THEN [f EXCEPT !.more = FALSE]
    ELSE PickleFrame(RecvPyobj(f), FALSE, f.uid)

\* a SUB socket with the subscription filter receives a message when the
\* filter is a prefix of the message's first frame
Matches(filter, topic) ==
    /\ Len(filter) <= Len(topic)
    /\ SubSeq(topic, 1, Len(filter)) = filter

\* what the subscriber's socket subscribes to: the thread Subscriber
\* subscribes to b"", the process Subscriber to its topic
SubFilter(s) == IF SubKind(s) = "thread" THEN <<>> ELSE SubTopic(s)

Open(s) == sub[s] \in {"check", "recv"}

\* the PUB socket hands the finished message m to the open, matching sockets
Deliver(m) ==
    subq' = [s \in Subs |->
               IF Open(s) /\ Matches(SubFilter(s), m[1].s) THEN Append(subq[s], m)
               ELSE subq[s]]

\* the payload: listener.recv + publisher.send for a numeric payload,
\* listener.recv_pyobj + publisher.send_pyobj otherwise; i += 1
RelayRecvData(r) ==
    /\ relay[r].pc = "recvData"
    /\ \E c \in PullSources(r) :
         LET f == Head(pipe[c])
             numpy == relay[r].metadata.numpy
         IN  /\ pipe' = [pipe EXCEPT ![c] = AfterRead(@, f, ~(numpy \/ RecvPyobjOk(f)))]
             /\ IF numpy \/ RecvPyobjOk(f)
                THEN /\ relay' = [relay EXCEPT ![r].pc = "checkExit",
                                               ![r].data = f,
                                               ![r].src = SrcAfter(c, f),
                                               ![r].i = @ + 1]
                     /\ Deliver(pubOut[r] \o <<Forward(f, numpy)>>)
                     /\ relayed' = Append(relayed, pubOut[r] \o <<Forward(f, numpy)>>)
                     /\ UNCHANGED <<pubPort, pullPort>>
                ELSE /\ relay' = [relay EXCEPT ![r].pc = "crashed"]
                     /\ UNCHANGED <<subq, relayed>>
                     /\ PortsAfterExit(r)
    /\ pubOut' = [pubOut EXCEPT ![r] = <<>>]
    /\ UNCHANGED <<stopEvent, th, lock, topic_i, pusher_i, partial, sub, stopper, substop, npub, sent,
                   wire, received, calls,
                   appVars>>

\* IsExitData gone wrong: the test is made on the raw frame of a numeric
\* payload, which the exit keyword never is
IsExitDataRaw(f, numpy) == numpy /\ f.enc = "str"

\* "isinstance(data, str) and data == settings.PUBLISHER_EXIT_KEYWORD" for
\* the data of a frame: a numeric payload is received as bytes, never a str
IsExitData(f, numpy) ==
    /\ ~numpy
    /\ IsStr(RecvPyobj(f))
    /\ RecvPyobj(f).s = PUBLISHER_EXIT_KEYWORD

\* if topic == "" and the data is the exit keyword: self._event.set()
RelayExitTest(r) ==
    /\ relay[r].pc = "checkExit"
    /\ stopEvent' = IF relay[r].topic = TopicEmpty
                       /\ IsExitData(relay[r].data, relay[r].metadata.numpy)
                    THEN TRUE ELSE stopEvent
    /\ relay' = [relay EXCEPT ![r].pc = "check"]
    /\ UNCHANGED <<th, lock, topic_i, pusher_i, partial, pipe, pubOut, pubPort, pullPort,
                   sub, subq, stopper, substop, npub, sent, wire, relayed, received, calls,
                   appVars>>

(* ----------------------------- subscribers ----------------------------- *)
\* "while not settings.GENERAL_STOP_EVENT.is_set()"; after the loop the
\* socket is closed
SubLoopTest(s) ==
    /\ sub[s] = "check"
    /\ sub' = [sub EXCEPT ![s] = IF stopEvent THEN "closed" ELSE "recv"]
    /\ UNCHANGED <<stopEvent, th, lock, topic_i, pusher_i, partial, pipe, relay, pubOut,
                   pubPort, pullPort, subq, stopper, substop, npub, sent, wire, relayed, received, calls,
                   appVars>>

\* the thread Subscriber polls and, with nothing to read, sleeps and tests
\* the loop condition again
SubPollEmpty(s) ==
    /\ sub[s] = "recv"
    /\ SubKind(s) = "thread"
    /\ subq[s] = <<>>
    /\ sub' = [sub EXCEPT ![s] = "check"]
    /\ UNCHANGED <<stopEvent, th, lock, topic_i, pusher_i, partial, pipe, relay, pubOut,
                   pubPort, pullPort, subq, stopper, substop, npub, sent, wire, relayed, received, calls,
                   appVars>>

\* the payload decoded as the metadata says
SubDecodeOk(m) ==
    IF m[2].meta.numpy THEN DecodeOk(m[3].bytes, m[2].meta.dtype, m[2].meta.shape)
    ELSE RecvPyobjOk(m[3])
SubDecode(m) ==
    IF m[2].meta.numpy THEN DecodeArray(m[3].bytes, m[2].meta.dtype, m[2].meta.shape)
    ELSE RecvPyobj(m[3])

\* IsSubExit gone wrong: the exit keyword is not looked for
IsSubExitNever(data) == FALSE

\* "isinstance(data, str) and data == settings.SUBSCRIBER_EXIT_KEYWORD"
IsSubExit(data) == IsStr(data) /\ data.s = SUBSCRIBER_EXIT_KEYWORD

\* SubPop gone wrong: the newest message is taken first
SubPopNewest(q) == [m |-> q[Len(q)], rest |-> SubSeq(q, 1, Len(q) - 1)]

\* socket.recv_string / recv_json / recv: the oldest message of the socket
SubPop(q) == [m |-> Head(q), rest |-> Tail(q)]

\* self.func: the callback of S1 raises on the payload "bad1", the callback
\* of S2 on "bad2"; on every other payload they return
FuncRaises(s, data) ==
    /\ IsStr(data)
    /\ data.s = (IF s = "S1" THEN "bad1" ELSE "bad2")

\* AfterFuncRaise gone wrong: run catches the exception and goes on
AfterFuncRaiseCaught == "check"

\* where run goes when self.func(data) raises: nothing in run catches the
\* exception, the thread or process ends, the socket is not closed
AfterFuncRaise == "crashed"

\* one message: receive topic, metadata and payload, decode, stop on the
\* exit keyword, else call func(data)
SubRecv(s) ==
    /\ sub[s] = "recv"
    /\ subq[s] # <<>>
    /\ LET m == SubPop(subq[s]).m
       IN  /\ subq' = [subq EXCEPT ![s] = SubPop(subq[s]).rest]
           /\ received' = [received EXCEPT ![s] = Append(@, m)]
           /\ IF ~SubDecodeOk(m)
              THEN /\ sub' = [sub EXCEPT ![s] = "crashed"]
                   /\ calls' = calls
              ELSE IF IsSubExit(SubDecode(m))
              THEN /\ sub' = [sub EXCEPT ![s] = "closed"]
                   /\ calls' = calls
              ELSE /\ sub' = [sub EXCEPT ![s] = IF FuncRaises(s, SubDecode(m))
                                                THEN AfterFuncRaise ELSE "check"]
                   /\ calls' = [calls EXCEPT ![s] =
                                  Append(@, [topic |-> m[1].s, data |-> SubDecode(m),
                                             uid |-> m[3].uid])]
    /\ UNCHANGED <<stopEvent, th, lock, topic_i, pusher_i, partial, pipe, relay, pubOut,
                   pubPort, pullPort, stopper, substop, npub, sent, wire, relayed,
                   appVars>>

(* ------------------------------ Publisher.stop ------------------------- *)
\* the relay process is inside its loop
Looping(r) == relay[r].pc \in {"check", "recvTopic", "recvMeta", "recvData", "checkExit"}

\* the frames of one whole Pusher.publish(data, topic) call
PublishFrames(data, topic, i, uid) ==
    <<StrFrame(topic, TRUE, uid), JsonFrame(MetaOf(data, i), TRUE, uid),
      PayloadFrame(data, uid)>>

(* ----------------------------- Subscriber.stop ------------------------- *)
\* whether the object has the attribute self.topic: the __init__ of the
\* process Subscriber assigns it, the __init__ of the thread Subscriber
\* assigns func and socket only
HasTopicAttr(s) == SubKind(s) = "process"

\* the topic argument of the publish call in stop(): self.topic in the
\* thread Subscriber; none in the process Subscriber, so the default ""
StopTopic(s) == IF SubKind(s) = "thread" THEN SubTopic(s) ELSE TopicEmpty

\* the subscriber's thread or process has ended
Ended(s) == sub[s] \in {"closed", "crashed"}

\* stop(): "with Pusher() as pusher: pusher.publish(SUBSCRIBER_EXIT_KEYWORD,
\* ...)" on a Pusher of its own, then self.join(). In the thread Subscriber
\* the argument self.topic raises AttributeError before publish is called.
SubStopCall(s) ==
    /\ substop[s] = "idle"
    /\ Open(s)
    /\ Looping("R1")
    /\ IF SubKind(s) = "thread" /\ ~HasTopicAttr(s)
       THEN /\ substop' = [substop EXCEPT ![s] = "raised"]
            /\ UNCHANGED <<pipe, wire>>
       ELSE /\ substop' = [substop EXCEPT ![s] = "joining"]
            /\ IF PUBLISHER_READY
               THEN LET fs == PublishFrames(PyStr(SUBSCRIBER_EXIT_KEYWORD), StopTopic(s), 1, 0)
                    IN  /\ pipe' = [pipe EXCEPT ![SubStopPusher(s)] = @ \o fs]
                        /\ wire' = [wire EXCEPT ![SubStopPusher(s)] = @ \o fs]
               ELSE UNCHANGED <<pipe, wire>>
    /\ UNCHANGED <<stopEvent, th, lock, topic_i, pusher_i, partial, relay, pubOut,
                   pubPort, pullPort, sub, subq, stopper, npub, sent, relayed, received,
                   calls,
                   appVars>>

\* self.join() returns when the subscriber's thread or process has ended
SubStopReturn(s) ==
    /\ substop[s] = "joining"
    /\ Ended(s)
    /\ substop' = [substop EXCEPT ![s] = "returned"]
    /\ UNCHANGED <<stopEvent, th, lock, topic_i, pusher_i, partial, pipe, relay, pubOut,
                   pubPort, pullPort, sub, subq, stopper, npub, sent, wire, relayed,
                   received, calls,
                   appVars>>

\* stop(): "with Pusher() as pusher: pusher.publish(PUBLISHER_EXIT_KEYWORD)"
\* on a Pusher of its own, then self.join()
StopCall(r) ==
    /\ stopper = "idle"
    /\ Looping(r)
    /\ stopper' = "joining"
    /\ IF PUBLISHER_READY
       THEN LET fs == PublishFrames(PyStr(PUBLISHER_EXIT_KEYWORD), TopicEmpty, 1, 0)
            IN  /\ pipe' = [pipe EXCEPT ![StopPusher] = @ \o fs]
                /\ wire' = [wire EXCEPT ![StopPusher] = @ \o fs]
       ELSE UNCHANGED <<pipe, wire>>
    /\ UNCHANGED <<stopEvent, th, lock, topic_i, pusher_i, partial, relay, pubOut,
                   pubPort, pullPort, sub, subq, substop, npub, sent, relayed, received,
                   calls,
                   appVars>>

\* self.join() returns when the relay process has ended
StopReturn(r) ==
    /\ stopper = "joining"
    /\ relay[r].pc \in Dead
    /\ stopper' = "returned"
    /\ UNCHANGED <<stopEvent, th, lock, topic_i, pusher_i, partial, pipe, relay, pubOut,
                   pubPort, pullPort, sub, subq, substop, npub, sent, wire, relayed,
                   received, calls,
                   appVars>>

(* -------------------------------- Signal ------------------------------- *)
\* the class attribute Signal.instance: None, and no method assigns it
\* (__set_name__ and __get__ assign self.instace)
SignalInstanceAttr == "None"

\* id(obj), as text: objects alive at the same time have different ids
Id(obj) ==
    CASE obj = "None" -> "idNone"
      [] obj = "M" -> "idM"
      [] obj = "A" -> "idA"
      [] OTHER -> "idB"

\* the property Signal.topic of the signal with the attributes sg
SignalTopic(sg) ==
    IF sg.instace # "None" THEN <<SignalName, "-", Id(SignalInstanceAttr)>>
    ELSE IF sg.owner # "None" THEN <<SignalName, "-", Id(sg.owner)>>
    ELSE <<SignalName, "-", "0">>

\* Signal.__get__(instance, owner) with an instance: self.instace = instance
\* and the signal registered under the name is returned
SignalAccess(i) == [signal EXCEPT !.instace = i]

\* "inst.sig.topic": the signal reached through the instance i, and its topic
SignalGet(i) ==
    /\ signal' = SignalAccess(i)
    /\ sigHist' = [sigHist EXCEPT !.topics[i] = @ \cup {SignalTopic(SignalAccess(i))}]
    /\ UNCHANGED <<bcastVars, devVars, cfgVars, actVars, program, camera>>

\* the parameters of Subscriber.__init__ after self, and the arguments that
\* Signal.connect passes in "Subscriber(func, self.topic)"
SubscriberInitParams == <<"func", "url", "topic">>
ConnectCallArgs == <<"func", "topic">>

\* the first statement of Signal.connect, after the Pusher, that raises:
\* the constructor call with a missing argument; s.start() on a thread that
\* Subscriber.__init__ has started already; append on the class attribute
\* BaseModel._subscribers, a dict
ConnectFailure ==
    LET initStartsThread == TRUE
        subscribersContainer == "dict"
    IN  IF Len(ConnectCallArgs) # Len(SubscriberInitParams) THEN "TypeError"
        ELSE IF initStartsThread THEN "RuntimeError"
        ELSE IF subscribersContainer # "list" THEN "AttributeError"
        ELSE "none"

\* "inst.sig.connect(func)": the Pusher is created when the signal has none,
\* then the Subscriber is constructed and started and func registered
SignalConnect(i, func) ==
    /\ sigHist.connects < MaxConnect
    /\ LET sg == [SignalAccess(i) EXCEPT !.pusher = IF @ = "None" THEN SignalPusher ELSE @]
       IN  /\ signal' = IF ConnectFailure = "none"
                        THEN [sg EXCEPT !.subscribers = Append(@, func)]
                        ELSE sg
           /\ sigHist' = [sigHist EXCEPT
                            !.connects = @ + 1,
                            !.raised = IF ConnectFailure = "none" THEN @ ELSE @ + 1,
                            !.pushers = IF signal.pusher = "None" THEN @ + 1 ELSE @]
    /\ UNCHANGED <<bcastVars, devVars, cfgVars, actVars, program, camera>>

\* HasSubscribers gone wrong: emit does not look at the subscribers
HasSubscribersAlways(sg) == TRUE

\* "if len(self.subscribers)"
HasSubscribers(sg) == Len(sg.subscribers) > 0

\* "inst.sig.emit(args)": with subscribers the record of the arguments is
\* published on the signal's topic through self.pusher (a call on None
\* raises AttributeError); with none only a debug line is logged
SignalEmit(i, args) ==
    /\ sigHist.emits < MaxEmit
    /\ signal' = SignalAccess(i)
    /\ IF HasSubscribers(SignalAccess(i)) /\ signal.pusher # "None" /\ PUBLISHER_READY
       THEN LET fs == PublishFrames(PyDict(args), SignalTopic(SignalAccess(i)), 1, 0)
            IN  /\ pipe' = [pipe EXCEPT ![signal.pusher] = @ \o fs]
                /\ wire' = [wire EXCEPT ![signal.pusher] = @ \o fs]
                /\ sigHist' = [sigHist EXCEPT !.emits = @ + 1, !.published = @ + 1]
       ELSE /\ UNCHANGED <<pipe, wire>>
            /\ sigHist' = [sigHist EXCEPT !.emits = @ + 1]
    /\ UNCHANGED <<stopEvent, th, lock, topic_i, pusher_i, partial, relay, pubOut,
                   pubPort, pullPort, sub, subq, stopper, substop, npub, sent, relayed,
                   received, calls, devVars, cfgVars, actVars, program, camera>>

(* ------------------------------ lib/device ----------------------------- *)
\* one more operation of the device layer: the record of its outcome
Call(op, target, ready, raised, ncalls) ==
    [NoCall EXCEPT !.op = op, !.target = target, !.ready = ready, !.raised = raised,
                   !.driverCalls = ncalls, !.nops = lastCall.nops + 1]

\* Device.add_driver(driver)
DeviceAddDriver(d) ==
    /\ lastCall.nops < MaxOps
    /\ device' = [device EXCEPT ![d].driver = "drv"]
    /\ lastCall' = Call("add_driver", d, TRUE, "none", 0)
    /\ UNCHANGED <<bcastVars, sigVars, cfgVars, actVars, program, camera, actuator, sensor, experiment, driverLog>>

\* Device.initialize_driver on a device whose driver attribute is driver,
\* with the hardware answering as fault says: the new driver attribute and
\* the exception raised. The driver is assigned before initialize() is
\* called; the USB and serial branches raise Warning after it; every
\* exception leaves as Exception('Driver not initialized').
InitializeDriver(d, driver, fault) ==
    IF fault = "construct" THEN [driver |-> driver, raised |-> "Exception"]
    ELSE IF ConnType(d) = "daq" THEN [driver |-> "drv", raised |-> "none"]
    ELSE IF fault = "initialize" \/ ConnType(d) \in {"USB", "serial"}
         THEN [driver |-> "drv", raised |-> "Exception"]
    ELSE IF ConnType(d) = "GPIB" THEN [driver |-> "drv", raised |-> "none"]
    ELSE [driver |-> driver, raised |-> "none"]

\* Device.initialize_driver()
DeviceInitializeDriver(d, fault) ==
    /\ lastCall.nops < MaxOps
    /\ device' = [device EXCEPT ![d].driver = InitializeDriver(d, @, fault).driver]
    /\ lastCall' = [Call("initialize_driver", d, TRUE, InitializeDriver(d, device[d].driver, fault).raised, 0)
                      EXCEPT !.attempted = <<d>>]
    /\ UNCHANGED <<bcastVars, sigVars, cfgVars, actVars, program, camera, actuator, sensor, experiment, driverLog>>

\* DriverIsNone gone wrong: the test always fails
DriverIsNoneNever(d) == FALSE

\* "if self.driver is None"
DriverIsNone(d) == device[d].driver = "None"

\* "value = Q_(values[k])", or values[k] as it is when the conversion raises
Converted(v) == IF v.kind = "number" THEN Quantity(v.mag) ELSE v

\* "'Setting {} to {:~}'.format(k, value)": an unassigned local raises
\* UnboundLocalError, the format "~" on a value that is no Quantity
\* raises ValueError
FormatFailure(value) ==
    IF value = Unbound THEN "UnboundLocalError"
    ELSE IF value.kind # "quantity" THEN "ValueError"
    ELSE "none"

\* the loop "for k in values" of apply_values over the items left, with the
\* keys in bad those on which setattr(self.driver, k, ...) raises. st holds
\* the local value, _params, the keys set on the driver and the exception
\* that left the loop.
RECURSIVE ApplyLoop(_, _, _)
ApplyLoop(items, bad, st) ==
    IF items = <<>> \/ st.raised # "none" THEN st
    ELSE LET k == Head(items).key
             v == Head(items).val
             value == IF v.kind = "quantity" THEN st.value ELSE Converted(v)
         IN  IF FormatFailure(value) # "none"
             THEN [st EXCEPT !.value = value, !.raised = FormatFailure(value)]
             ELSE ApplyLoop(Tail(items), bad,
                     [st EXCEPT !.value = value,
                                !.params[k] = value,
                                !.set = IF k \in bad THEN @ ELSE Append(@, [key |-> k, val |-> v])])

\* the entries that the calls setattr(driver, key, val) add to the log
SetattrCalls(d, set) == [n \in 1..Len(set) |-> [dev |-> d, call |-> "setattr", key |-> set[n].key, val |-> set[n].val]]

\* Device.apply_values(values) with a dictionary
DeviceApplyValues(d, items, bad) ==
    /\ lastCall.nops < MaxOps
    /\ IF DriverIsNone(d)
       THEN /\ lastCall' = [Call("apply_values", d, device[d].driver # "None", "Exception", 0)
                              EXCEPT !.keys = {items[n].key : n \in 1..Len(items)}, !.bad = bad]
            /\ UNCHANGED <<device, driverLog>>
       ELSE LET \* setattr on the driver None raises for every key
                raising == IF device[d].driver = "None" THEN Keys ELSE bad
                st == ApplyLoop(items, raising,
                         [value |-> Unbound, params |-> device[d].params, set |-> <<>>,
                          raised |-> "none"])
            IN  /\ device' = [device EXCEPT ![d].params = st.params]
                /\ driverLog' = driverLog \o SetattrCalls(d, st.set)
                /\ lastCall' = [Call("apply_values", d, device[d].driver # "None", st.raised,
                                     Len(st.set))
                                  EXCEPT !.keys = {items[n].key : n \in 1..Len(items)},
                                         !.bad = bad,
                                         !.applied = {st.set[n].key : n \in 1..Len(st.set)}]
    /\ UNCHANGED <<bcastVars, sigVars, cfgVars, actVars, program, camera, actuator, sensor, experiment>>

\* the device setter of Actuator: a second assignment raises
ActuatorSetDevice(a, d) ==
    /\ lastCall.nops < MaxOps
    /\ IF actuator[a].device # "None"
       THEN /\ lastCall' = Call("actuator.device=", a, TRUE, "Exception", 0)
            /\ actuator' = actuator
       ELSE /\ lastCall' = Call("actuator.device=", a, TRUE, "none", 0)
            /\ actuator' = [actuator EXCEPT ![a].device = d]
    /\ UNCHANGED <<bcastVars, sigVars, cfgVars, actVars, program, camera, device, sensor, experiment, driverLog>>

\* the value getter of Actuator: "return self._value"
ActuatorValue(a) == actuator[a].value

\* OutOfLimits gone wrong: only the upper limit is tested
OutOfLimitsMaxOnly(a, v) == v.mag > LimitMax(a).mag

\* "value > Q_(limits['max']) or value < Q_(limits['min'])"
OutOfLimits(a, v) == v.mag > LimitMax(a).mag \/ v.mag < LimitMin(a).mag

\* what the value setter of Actuator raises: Exception with no device,
\* Warning outside the limits, and what Device.apply_value raises, raised
\* again: AttributeError on the driver None, or the driver's own error
ActuatorSetFailure(a, v, driverFails) ==
    IF actuator[a].device = "None" THEN "Exception"
    ELSE IF HasLimits(a) /\ OutOfLimits(a, v) THEN "Warning"
    ELSE IF device[actuator[a].device].driver = "None" THEN "AttributeError"
    ELSE IF driverFails THEN "DriverError"
    ELSE "none"

\* the value setter of Actuator: "actuator.value = v"; self._value is not
\* assigned
ActuatorSetValue(a, v, driverFails) ==
    /\ lastCall.nops < MaxOps
    /\ LET failure == ActuatorSetFailure(a, v, driverFails)
           called == failure \in {"none", "DriverError"}
           ready == actuator[a].device # "None" /\ device[actuator[a].device].driver # "None"
       IN  /\ lastCall' = Call("actuator.value=", a, ready, failure, IF called THEN 1 ELSE 0)
           /\ driverLog' = IF called
                           THEN Append(driverLog, [dev |-> actuator[a].device,
                                                   call |-> "apply_value", key |-> a, val |-> v])
                           ELSE driverLog
    /\ UNCHANGED <<bcastVars, sigVars, cfgVars, actVars, program, camera, device, actuator, sensor, experiment>>

\* Sensor.add_device(device); the argument may be None
SensorAddDevice(x, d) ==
    /\ lastCall.nops < MaxOps
    /\ sensor' = [sensor EXCEPT ![x].device = d]
    /\ lastCall' = Call("add_device", x, TRUE, "none", 0)
    /\ UNCHANGED <<bcastVars, sigVars, cfgVars, actVars, program, camera, device, actuator, experiment, driverLog>>

\* what the value getter of Sensor raises: AttributeError when the
\* attribute device was never assigned, Exception when it is None,
\* AttributeError from Device.read_value on the driver None
SensorReadFailure(x) ==
    IF sensor[x].device = "unset" THEN "AttributeError"
    ELSE IF sensor[x].device = "None" THEN "Exception"
    ELSE IF device[sensor[x].device].driver = "None" THEN "AttributeError"
    ELSE "none"

\* the value getter of Sensor: "sensor.value"
SensorReadValue(x) ==
    /\ lastCall.nops < MaxOps
    /\ LET ready == sensor[x].device \in Devices /\ device[sensor[x].device].driver # "None"
       IN  /\ lastCall' = Call("sensor.value", x, ready, SensorReadFailure(x),
                               IF SensorReadFailure(x) = "none" THEN 1 ELSE 0)
           /\ driverLog' = IF SensorReadFailure(x) = "none"
                           THEN Append(driverLog, [dev |-> sensor[x].device,
                                                   call |-> "read_value", key |-> x, val |-> NoValue])
                           ELSE driverLog
    /\ UNCHANGED <<bcastVars, sigVars, cfgVars, actVars, program, camera, device, actuator, sensor, experiment>>

(* ------------------------------ experiment ----------------------------- *)
\* the state a loop over devices carries: the driver of each device, the
\* devices registered, those whose initialize_driver was called and those
\* for which it raised, the calls made on drivers, the exception that left
\* the loop
LoopStart(registered) ==
    [driver |-> [d \in Devices |-> device[d].driver], devices |-> registered,
     attempted |-> <<>>, failed |-> {}, set |-> <<>>, raised |-> "none"]

InSeq(q, e) == \E n \in 1..Len(q) : q[n] = e

\* the loop of Experiment.load_devices over devices_dict: a new device is
\* registered and its driver initialized, a known one raises Warning
RECURSIVE LoadLoop(_, _, _)
LoadLoop(devs, faults, st) ==
    IF devs = <<>> \/ st.raised # "none" THEN st
    ELSE LET d == Head(devs)
             r == InitializeDriver(d, "None", faults[d])
         IN  IF InSeq(st.devices, d) THEN [st EXCEPT !.raised = "Warning"]
             ELSE LoadLoop(Tail(devs), faults,
                     [st EXCEPT !.devices = Append(@, d),
                                !.driver[d] = r.driver,
                                !.attempted = Append(@, d),
                                !.failed = IF r.raised = "none" THEN @ ELSE @ \cup {d},
                                !.raised = r.raised])

\* the outcome of a loop, as the record of the operation
LoopCall(op, devs, st) ==
    [Call(op, "experiment", TRUE, st.raised, Len(st.set))
       EXCEPT !.keys = {devs[n] : n \in 1..Len(devs)}, !.bad = st.failed,
              !.attempted = st.attempted]

\* Experiment.load_devices(devices_dict): every device of the dictionary
\* has a 'driver' entry
ExpLoadDevices(devs, faults) ==
    /\ lastCall.nops < MaxOps
    /\ LET st == LoadLoop(devs, faults, LoopStart(experiment.devices))
       IN  /\ device' = [d \in Devices |->
                           IF InSeq(st.attempted, d)
                           THEN [driver |-> st.driver[d], params |-> [k \in Keys |-> NoValue]]
                           ELSE device[d]]
           /\ experiment' = [devices |-> st.devices,
                             loaded_devices |-> experiment.loaded_devices \/ st.raised = "none"]
           /\ lastCall' = LoopCall("load_devices", devs, st)
    /\ UNCHANGED <<bcastVars, sigVars, cfgVars, actVars, program, camera, actuator, sensor, driverLog>>

\* the loop of Experiment.initialize_devices over self.devices
RECURSIVE InitializeLoop(_, _, _)
InitializeLoop(devs, faults, st) ==
    IF devs = <<>> \/ st.raised # "none" THEN st
    ELSE LET d == Head(devs)
             r == InitializeDriver(d, st.driver[d], faults[d])
         IN  InitializeLoop(Tail(devs), faults,
                 [st EXCEPT !.driver[d] = r.driver,
                            !.attempted = Append(@, d),
                            !.failed = IF r.raised = "none" THEN @ ELSE @ \cup {d},
                            !.raised = r.raised])

\* Experiment.initialize_devices()
ExpInitializeDevices(faults) ==
    /\ lastCall.nops < MaxOps
    /\ LET st == IF experiment.loaded_devices
                 THEN InitializeLoop(experiment.devices, faults, LoopStart(experiment.devices))
                 ELSE [LoopStart(experiment.devices) EXCEPT !.raised = "Exception"]
       IN  /\ device' = [d \in Devices |-> [device[d] EXCEPT !.driver = st.driver[d]]]
           /\ lastCall' = LoopCall("initialize_devices", experiment.devices, st)
    /\ UNCHANGED <<bcastVars, sigVars, cfgVars, actVars, program, camera, actuator, sensor, experiment, driverLog>>

\* the dictionary read from the defaults file of a device: plain values
Defaults == <<[key |-> "k1", val |-> Number(1)]>>

\* the loop of measurement.initialize_devices over self.devices:
\* initialize_driver inside try/except, then apply_values(defaults) for a
\* device with a 'defaults' entry, outside of it
RECURSIVE MeasurementLoop(_, _, _, _)
MeasurementLoop(devs, faults, defaults, st) ==
    IF devs = <<>> \/ st.raised # "none" THEN st
    ELSE LET d == Head(devs)
             r == InitializeDriver(d, st.driver[d], faults[d])
             st1 == [st EXCEPT !.driver[d] = r.driver,
                               !.attempted = Append(@, d),
                               !.failed = IF r.raised = "none" THEN @ ELSE @ \cup {d}]
             ap == ApplyLoop(Defaults, {},
                      [value |-> Unbound, params |-> device[d].params, set |-> <<>>,
                       raised |-> "none"])
         IN  IF d \notin defaults THEN MeasurementLoop(Tail(devs), faults, defaults, st1)
             ELSE IF r.driver = "None" THEN [st1 EXCEPT !.raised = "Exception"]
             ELSE MeasurementLoop(Tail(devs), faults, defaults,
                     [st1 EXCEPT !.set = @ \o SetattrCalls(d, ap.set), !.raised = ap.raised])

\* measurement.initialize_devices() on a measurement that holds devs, of
\* which those in defaults have a 'defaults' entry
MeasurementInitializeDevices(devs, faults, defaults) ==
    /\ lastCall.nops < MaxOps
    /\ LET st == MeasurementLoop(devs, faults, defaults, LoopStart(devs))
       IN  /\ device' = [d \in Devices |->
                           [driver |-> st.driver[d],
                            params |-> IF \E n \in 1..Len(st.set) : st.set[n].dev = d
                                       THEN [device[d].params EXCEPT !["k1"] = Converted(Number(1))]
                                       ELSE device[d].params]]
           /\ driverLog' = driverLog \o st.set
           /\ lastCall' = LoopCall("measurement.initialize_devices", devs, st)
    /\ UNCHANGED <<bcastVars, sigVars, cfgVars, actVars, program, camera, actuator, sensor, experiment>>

(* ----------------------------- Properties ------------------------------ *)
\* SetExisting gone wrong: the assignment also overwrites the stored value
SetExistingValue(entry, value) ==
    [entry EXCEPT !.new_value = value, !.value = value, !.to_update = TRUE]

\* __setitem__ on a key that is in _properties
SetExisting(entry, value) == [entry EXCEPT !.new_value = value, !.to_update = TRUE]

\* Properties.__setitem__(key, value), on the dictionary props
SetItem(props, key, value) ==
    IF ~props[key].present
    THEN [props EXCEPT ![key] = [present |-> TRUE, new_value |-> value, value |-> NoValue,
                                 old_value |-> NoValue, to_update |-> TRUE]]
    ELSE [props EXCEPT ![key] = SetExisting(@, value)]

\* Properties.__getitem__(item) with a key that is present
GetItem(props, key) == props[key].value

\* Properties.to_update(): the keys of the dictionary it returns
ToUpdate(props) == {k \in Keys : props[k].present /\ props[k].to_update}

\* the loop of Properties.update(values): __setitem__ for every item
RECURSIVE UpdateLoop(_, _)
UpdateLoop(items, st) ==
    IF items = <<>> THEN st
    ELSE UpdateLoop(Tail(items),
            [st EXCEPT !.props = SetItem(@, Head(items).key, Head(items).val),
                       !.pending[Head(items).key] = TRUE])

\* the loop of Properties.upgrade(values): an unknown key raises
\* PropertyException, a known one gets value and new_value
RECURSIVE UpgradeLoop(_, _)
UpgradeLoop(items, st) ==
    IF items = <<>> \/ st.raised # "none" THEN st
    ELSE LET k == Head(items).key
             v == Head(items).val
         IN  IF ~st.props[k].present THEN [st EXCEPT !.raised = "PropertyException"]
             ELSE UpgradeLoop(Tail(items),
                     [st EXCEPT !.props[k] = [@ EXCEPT !.new_value = v, !.value = v,
                                                       !.to_update = FALSE],
                                !.pending[k] = FALSE,
                                !.upgraded[k] = v])

LoopState == [props |-> config, pending |-> propHist.pending,
              upgraded |-> propHist.upgraded, raised |-> "none"]

\* "config[key] = value"
PropertiesSetItem(key, value) ==
    /\ propHist.nops < MaxOps
    /\ config' = SetItem(config, key, value)
    /\ propHist' = [propHist EXCEPT !.pending[key] = TRUE, !.raised = "none", !.nops = @ + 1]
    /\ UNCHANGED <<bcastVars, sigVars, devVars, actVars, program, camera, setting, setHist>>

\* Properties.update(values)
PropertiesUpdate(items) ==
    /\ propHist.nops < MaxOps
    /\ LET st == UpdateLoop(items, LoopState)
       IN  /\ config' = st.props
           /\ propHist' = [propHist EXCEPT !.pending = st.pending, !.raised = "none",
                                           !.nops = @ + 1]
    /\ UNCHANGED <<bcastVars, sigVars, devVars, actVars, program, camera, setting, setHist>>

\* Properties.upgrade(values)
PropertiesUpgrade(items) ==
    /\ propHist.nops < MaxOps
    /\ LET st == UpgradeLoop(items, LoopState)
       IN  /\ config' = st.props
           /\ propHist' = [pending |-> st.pending, upgraded |-> st.upgraded,
                           raised |-> st.raised, nops |-> propHist.nops + 1]
    /\ UNCHANGED <<bcastVars, sigVars, devVars, actVars, program, camera, setting, setHist>>

(* ------------------------- Setting and Feature ------------------------- *)
\* the record of one access to the setting name
Access(op, name, getter, returned, raised) ==
    [op |-> op, name |-> name, getter |-> getter, returned |-> returned,
     known |-> setHist.lastRead[name], raised |-> raised,
     lastRead |-> IF getter THEN [setHist.lastRead EXCEPT ![name] = returned]
                  ELSE setHist.lastRead,
     nops |-> setHist.nops + 1]

\* Setting.__get__(instance, owner): the entry of _settings when it is not
\* None, else the getter's value, which is stored
SettingGet(i) ==
    /\ setHist.nops < MaxOps
    /\ IF setting.cache # NoValue
       THEN /\ setHist' = Access("read", "exposure_time", FALSE, setting.cache, "none")
            /\ setting' = setting
       ELSE /\ setHist' = Access("read", "exposure_time", TRUE, setting.dev[i]["exposure_time"], "none")
            /\ setting' = [setting EXCEPT !.cache = setting.dev[i]["exposure_time"]]
    /\ UNCHANGED <<bcastVars, sigVars, devVars, actVars, program, camera, config, propHist>>

\* Setting.__set__(instance, value): None reads the instrument again, another
\* value is given to the setter and the instrument read again
SettingSet(i, value) ==
    /\ setHist.nops < MaxOps
    /\ LET dev == IF value = NoValue THEN setting.dev
                  ELSE [setting.dev EXCEPT ![i]["exposure_time"] = value]
       IN  /\ setting' = [setting EXCEPT !.dev = dev, !.cache = dev[i]["exposure_time"]]
           /\ setHist' = Access(IF value = NoValue THEN "force" ELSE "set", "exposure_time",
                                TRUE, dev[i]["exposure_time"], "none")
    /\ UNCHANGED <<bcastVars, sigVars, devVars, actVars, program, camera, config, propHist>>

\* Feature.force_update: kwargs.get('force_update_arg', None)
ForceUpdate == NoValue

\* "instance.config.upgrade({...}, force=True)": Properties.upgrade takes
\* values only, the keyword raises TypeError (on a model whose config is a
\* dict the attribute upgrade is missing: AttributeError)
UpgradeParams == {"values"}
ConfigUpgradeFailure == IF "force" \in UpgradeParams THEN "none" ELSE "TypeError"

\* Feature.__get__(instance, owner) of the Feature with setting=True: the
\* value it holds unless that equals force_update; else the getter's value,
\* handed to config.upgrade and returned; self.value is not assigned
FeatureGet(i) ==
    /\ setHist.nops < MaxOps
    /\ IF setting.value # ForceUpdate
       THEN setHist' = Access("read", "max_width", FALSE, setting.value, "none")
       ELSE setHist' = Access("read", "max_width", TRUE, setting.dev[i]["max_width"],
                             ConfigUpgradeFailure)
    /\ UNCHANGED <<bcastVars, sigVars, devVars, actVars, program, camera, config, propHist, setting>>

\* Feature.__set__(instance, value) of the Feature with setting=True: only
\* force_update is accepted; the getter's value is stored in self.value and
\* handed to config.upgrade
FeatureSet(i, value) ==
    /\ setHist.nops < MaxOps
    /\ IF value = ForceUpdate
       THEN /\ setting' = [setting EXCEPT !.value = setting.dev[i]["max_width"]]
            /\ setHist' = Access("force", "max_width", TRUE, setting.dev[i]["max_width"],
                                 ConfigUpgradeFailure)
       ELSE /\ setting' = setting
            /\ setHist' = Access("set", "max_width", FALSE, NoValue, "AttributeError")
    /\ UNCHANGED <<bcastVars, sigVars, devVars, actVars, program, camera, config, propHist>>

\* what reading the setting name through instance i returns in the state
\* st of the caches: Setting.__get__ and Feature.__get__
ReadValue(st, i, name) ==
    IF name = "exposure_time"
    THEN IF st.cache # NoValue THEN st.cache ELSE st.dev[i][name]
    ELSE IF st.value # ForceUpdate THEN st.value ELSE st.dev[i][name]

\* the instrument of instance i changes what it holds under name
InstrumentChange(i, name, value) ==
    /\ setHist.nops < MaxOps
    /\ setting.dev[i][name] # value
    /\ setting' = [setting EXCEPT !.dev[i][name] = value]
    /\ setHist' = [setHist EXCEPT !.op = "change", !.name = name, !.getter = FALSE,
                                  !.raised = "none", !.nops = @ + 1]
    /\ UNCHANGED <<bcastVars, sigVars, devVars, actVars, program, camera, config, propHist>>

(* -------------------------------- Action ------------------------------- *)
\* ExecutorWorkers gone wrong: an executor with two workers
ExecutorWorkersTwo == Workers

\* "ThreadPoolExecutor(max_workers=1)" of Action.__set_name__: the executor
\* stored in the _actions of the class, shared by its instances
ExecutorWorkers == {"W1"}

\* Action.__get__(instance, owner): "model.action" evaluated by thread t
\* through instance i; the descriptor records the instance and returns
\* itself
ActionGet(t, i) ==
    /\ action.got[t] = "None"
    /\ Len(actHist.calls) + Cardinality({u \in Threads : action.got[u] # "None"}) < MaxCalls
    /\ action' = [action EXCEPT !.instance = i, !.got[t] = i]
    /\ UNCHANGED <<bcastVars, sigVars, devVars, cfgVars, actHist, program, camera>>

\* Action.__call__() by the thread t that holds the Action: run submits
\* (method, self.instance) to the executor of self.instance._actions and
\* returns the Future
ActionCall(t) ==
    /\ action.got[t] # "None"
    /\ LET work == [id |-> Len(actHist.calls) + 1, instance |-> action.instance,
                    via |-> action.got[t]]
       IN  /\ action' = [action EXCEPT !.got[t] = "None", !.queue = Append(@, work)]
           /\ actHist' = [actHist EXCEPT !.calls = Append(@, work)]
    /\ UNCHANGED <<bcastVars, sigVars, devVars, cfgVars, program, camera>>

\* a worker of the executor without work takes the oldest work item and
\* begins method(instance)
ExecutorStart(w) ==
    /\ w \in ExecutorWorkers
    /\ action.worker[w] = NoWork
    /\ action.queue # <<>>
    /\ action' = [action EXCEPT !.worker[w] = Head(action.queue), !.queue = Tail(@)]
    /\ actHist' = [actHist EXCEPT !.started = Append(@, Head(action.queue).id)]
    /\ UNCHANGED <<bcastVars, sigVars, devVars, cfgVars, program, camera>>

\* method(instance) returns; the Future is done
ExecutorFinish(w) ==
    /\ action.worker[w] # NoWork
    /\ action' = [action EXCEPT !.worker[w] = NoWork]
    /\ UNCHANGED <<bcastVars, sigVars, devVars, cfgVars, actHist, program, camera>>

(* -------------------------------- camera ------------------------------- *)
\* continuous_reads(): make_async_thread starts a thread on the method and
\* returns
ContinuousReads ==
    /\ camera.reader = "none"
    /\ camera' = [camera EXCEPT !.reader = "started"]
    /\ UNCHANGED <<bcastVars, sigVars, devVars, cfgVars, actVars, program>>

\* the reader thread: "self.continuous_reads_running = True"
ReaderSetRunning ==
    /\ camera.reader = "started"
    /\ camera' = [camera EXCEPT !.continuous_reads_running = TRUE, !.reader = "setKeep"]
    /\ UNCHANGED <<bcastVars, sigVars, devVars, cfgVars, actVars, program>>

\* the reader thread: "self.keep_reading = True"
ReaderSetKeep ==
    /\ camera.reader = "setKeep"
    /\ camera' = [camera EXCEPT !.keep_reading = TRUE, !.reader = "test"]
    /\ UNCHANGED <<bcastVars, sigVars, devVars, cfgVars, actVars, program>>

\* the reader thread: "while self.keep_reading"; after the loop
\* "self.continuous_reads_running = False"
ReaderTest ==
    /\ camera.reader = "test"
    /\ IF camera.keep_reading
       THEN camera' = [camera EXCEPT !.reader = "read"]
       ELSE camera' = [camera EXCEPT !.reader = "done", !.continuous_reads_running = FALSE]
    /\ UNCHANGED <<bcastVars, sigVars, devVars, cfgVars, actVars, program>>

\* the reader thread: "imgs = self.read_camera()" returns n images
ReaderRead(n) ==
    /\ camera.reader = "read"
    /\ camera.emitted + n <= MaxImages
    /\ camera' = [camera EXCEPT !.imgs = n, !.reader = "emit"]
    /\ UNCHANGED <<bcastVars, sigVars, devVars, cfgVars, actVars, program>>

\* the reader thread: "self.new_image.emit(img)" for the next image; after
\* the last one the sleep and the loop test
ReaderEmit ==
    /\ camera.reader = "emit"
    /\ IF camera.imgs = 0
       THEN camera' = [camera EXCEPT !.reader = "test"]
       ELSE camera' = [camera EXCEPT !.imgs = @ - 1, !.emitted = @ + 1,
                                     !.emittedAfterStop =
                                         IF camera.caller = "returned" THEN @ + 1 ELSE @]
    /\ UNCHANGED <<bcastVars, sigVars, devVars, cfgVars, actVars, program>>

\* stop_continuous_reads(): "self.keep_reading = False"
StopContinuousReads ==
    /\ camera.caller = "idle"
    /\ camera' = [camera EXCEPT !.keep_reading = FALSE, !.caller = "waiting",
                                 !.covers = camera.reader # "none"]
    /\ UNCHANGED <<bcastVars, sigVars, devVars, cfgVars, actVars, program>>

\* stop_continuous_reads(): "while self.continuous_reads_running" is left
\* and the method returns
StopReturns ==
    /\ camera.caller = "waiting"
    /\ ~camera.continuous_reads_running
    /\ camera' = [camera EXCEPT !.caller = "returned"]
    /\ UNCHANGED <<bcastVars, sigVars, devVars, cfgVars, actVars, program>>

(* ------------------------ program level objects ----------------------- *)
\* the Publisher process was started and has not ended
Alive(r) == relay[r].pc \notin ({"unstarted"} \cup Dead)

\* "Publisher(settings.GENERAL_STOP_EVENT)": a Publisher object that was
\* not started yet
Fresh(rl) == {r \in Relays : rl[r].pc = "unstarted"}
NewPublisher(rl) == IF "R1" \in Fresh(rl) THEN "R1" ELSE "R2"

\* Publisher.start() on the relays rl
Started(rl, r) == [rl EXCEPT ![r].pc = "bind", ![r].running = TRUE]

\* the record of one program level operation
Done(op, raised) == [program EXCEPT !.op = op, !.raised = raised, !.nops = @ + 1]

\* start_publisher(): with settings.publisher alive, return; with it dead,
\* settings.publisher.start() raises on the process that was started before;
\* without the attribute, a new Publisher is stored and started
StartPublisher ==
    /\ program.nops < MaxOps
    /\ IF program.publisher # "unset"
       THEN /\ program' = Done("start_publisher",
                               IF Alive(program.publisher) THEN "none" ELSE "AssertionError")
            /\ relay' = relay
       ELSE /\ Fresh(relay) # {}
            /\ relay' = Started(relay, NewPublisher(relay))
            /\ program' = [Done("start_publisher", "none") EXCEPT !.publisher = NewPublisher(relay)]
    /\ UNCHANGED <<stopEvent, th, lock, topic_i, pusher_i, partial, pipe, pubOut, pubPort,
                   pullPort, sub, subq, stopper, substop, npub, sent, wire, relayed,
                   received, calls, sigVars, devVars, cfgVars, actVars, camera>>

\* MetaExperiment.__call__ on the relays rl and the program state pr: the
\* instance is made (Experiment.__init__ opens a Listener); without
\* settings.publisher a Publisher is started and stored there; the instance
\* gets settings.publisher
Construct(st) ==
    IF st.pr.publisher = "unset"
    THEN [rl |-> Started(st.rl, NewPublisher(st.rl)),
          pr |-> [st.pr EXCEPT !.publisher = NewPublisher(st.rl), !.experiment = TRUE,
                               !.listener = "open", !.expPublisher = NewPublisher(st.rl)]]
    ELSE [rl |-> st.rl,
          pr |-> [st.pr EXCEPT !.experiment = TRUE, !.listener = "open",
                               !.expPublisher = st.pr.publisher]]

\* "Exp()": the construction of an experiment
ExperimentCall ==
    /\ program.nops < MaxOps
    /\ program.publisher = "unset" => Fresh(relay) # {}
    /\ LET st == Construct([rl |-> relay, pr |-> Done("Experiment", "none")])
       IN  /\ relay' = st.rl
           /\ program' = st.pr
    /\ UNCHANGED <<stopEvent, th, lock, topic_i, pusher_i, partial, pipe, pubOut, pubPort,
                   pullPort, sub, subq, stopper, substop, npub, sent, wire, relayed,
                   received, calls, sigVars, devVars, cfgVars, actVars, camera>>

\* the class Experiment defines no method initialize
ModelHasInitialize == FALSE

\* ExperimentApp.__init__(initialize=..., rehook_publisher=...): the
\* experiment model is constructed; with initialize its initialize() is
\* called; without rehook_publisher a Publisher is made and started
ExperimentAppInit(initialize, rehook) ==
    /\ program.nops < MaxOps
    /\ LET st == Construct([rl |-> relay, pr |-> Done("ExperimentApp", "none")])
       IN  /\ program.publisher = "unset" => Fresh(relay) # {}
           /\ IF initialize /\ ~ModelHasInitialize
              THEN /\ relay' = st.rl
                   /\ program' = [st.pr EXCEPT !.raised = "AttributeError"]
              ELSE IF rehook
              THEN /\ relay' = st.rl
                   /\ program' = st.pr
              ELSE /\ Fresh(st.rl) # {}
                   /\ relay' = Started(st.rl, NewPublisher(st.rl))
                   /\ program' = [st.pr EXCEPT !.appPublisher = NewPublisher(st.rl)]
    /\ UNCHANGED <<stopEvent, th, lock, topic_i, pusher_i, partial, pipe, pubOut, pubPort,
                   pullPort, sub, subq, stopper, substop, npub, sent, wire, relayed,
                   received, calls, sigVars, devVars, cfgVars, actVars, camera>>

\* what the metaclass MetaProcess gives the class Subscriber, and the name
\* finalize() asks it for
MetaProcessMembers == {"_instances", "get_instances"}
RegistryLookup == "_get_instances"

\* the frames of Listener.publish(data, topic): send_string(topic, SNDMORE);
\* send_pyobj(data)
ListenerFrames(data, topic) == <<StrFrame(topic, TRUE, 0), PickleFrame(data, FALSE, 0)>>

\* what Experiment.finalize() raises: AttributeError from the lookup
\* Subscriber._get_instances; else ZMQError from publish on the Listener
\* that an earlier finalize() closed
FinalizeFailure ==
    IF RegistryLookup \notin MetaProcessMembers THEN "AttributeError"
    ELSE IF program.listener = "closed" THEN "ZMQError"
    ELSE "none"

\* Experiment.finalize(), called directly or from __exit__ or __del__: each
\* subscriber instance is sent the exit word and awaited; the Listener sends
\* the relay's exit word and is closed; publisher.stop() publishes the exit
\* word through a Pusher and joins; __exit__ then calls publisher.stop()
\* again
ExperimentFinalize(op) ==
    /\ program.nops < MaxOps
    /\ program.experiment
    /\ IF FinalizeFailure # "none"
       THEN /\ program' = [Done(op, FinalizeFailure) EXCEPT !.finalized = @ + 1,
                                                            !.finalizeRaised = @ + 1]
            /\ UNCHANGED <<pipe, wire, stopper>>
       ELSE /\ \A s \in Subs : sub[s] = "none" \/ Ended(s)
            /\ LET ls == ListenerFrames(PyStr(PUBLISHER_EXIT_KEYWORD), TopicEmpty)
                   fs == PublishFrames(PyStr(PUBLISHER_EXIT_KEYWORD), TopicEmpty, 1, 0)
                   ps == IF op = "__exit__" THEN fs \o fs ELSE fs
               IN  /\ pipe' = [pipe EXCEPT !["L1"] = @ \o ls, ![StopPusher] = @ \o ps]
                   /\ wire' = [wire EXCEPT !["L1"] = @ \o ls, ![StopPusher] = @ \o ps]
            /\ stopper' = "joining"
            /\ program' = [Done(op, "none") EXCEPT !.finalized = @ + 1, !.listener = "closed"]
    /\ UNCHANGED <<stopEvent, th, lock, topic_i, pusher_i, partial, relay, pubOut, pubPort,
                   pullPort, sub, subq, substop, npub, sent, relayed,
                   received, calls, sigVars, devVars, cfgVars, actVars, camera>>

\* "settings.GENERAL_STOP_EVENT.set()" by a thread or process that holds
\* the event
StopEventSet ==
    /\ ~stopEvent
    /\ stopEvent' = TRUE
    /\ UNCHANGED <<th, lock, topic_i, pusher_i, partial, pipe, relay, pubOut, pubPort,
                   pullPort, sub, subq, stopper, substop, npub, sent, wire, relayed,
                   received, calls, appVars>>

(* ------------------------- relay start and bind ------------------------ *)
\* Publisher.start(): the process begins run(); self.running = True
RelayStart(r) ==
    /\ relay[r].pc = "unstarted"
    /\ relay' = [relay EXCEPT ![r].pc = "bind", ![r].running = TRUE]
    /\ UNCHANGED <<stopEvent, th, lock, topic_i, pusher_i, partial, pipe, pubOut, pubPort,
                   pullPort, sub, subq, stopper, substop, npub, sent, wire, relayed, received, calls,
                   appVars>>

\* publisher.bind(...PUBLISHER_PUBLISH_PORT) raises ZMQError when another
\* socket holds the port
BindFails(port, r) == port # "free"

\* the first bind of the fan-out port
RelayBind(r) ==
    /\ relay[r].pc = "bind"
    /\ IF BindFails(pubPort, r)
       THEN /\ relay' = [relay EXCEPT ![r].pc = "recover", ![r].firstBind = "failed"]
            /\ pubPort' = pubPort
       ELSE /\ relay' = [relay EXCEPT ![r].pc = "bindPull", ![r].firstBind = "ok"]
            /\ pubPort' = r
    /\ UNCHANGED <<stopEvent, th, lock, topic_i, pusher_i, partial, pipe, pubOut, pullPort,
                   sub, subq, stopper, substop, npub, sent, wire, relayed, received, calls,
                   appVars>>

\* the frames of the exit request of the recovery: temp.send_string("",
\* SNDMORE); temp.send_pyobj(PUBLISHER_EXIT_KEYWORD)
ExitRequest == <<StrFrame(TopicEmpty, TRUE, 0), PickleFrame(PyStr(PUBLISHER_EXIT_KEYWORD), FALSE, 0)>>

\* except ZMQError: connect temp to the fan-in port and send the exit
\* request; sleep(1) follows
RelayRecover(r) ==
    /\ relay[r].pc = "recover"
    /\ relay' = [relay EXCEPT ![r].pc = "retry"]
    /\ pipe' = [pipe EXCEPT ![TempSocket(r)] = @ \o ExitRequest]
    /\ wire' = [wire EXCEPT ![TempSocket(r)] = @ \o ExitRequest]
    /\ UNCHANGED <<stopEvent, th, lock, topic_i, pusher_i, partial, pubOut, pubPort,
                   pullPort, sub, subq, stopper, substop, npub, sent, relayed, received, calls,
                   appVars>>

\* AfterRetryFailure gone wrong: the recovery is tried again
AfterRetryFailureAgain == "recover"

\* where run goes when the second bind raises: "except zmq.ZMQError: raise"
AfterRetryFailure == "fatal"

\* the second bind of the fan-out port, after the sleep
RelayRetry(r) ==
    /\ relay[r].pc = "retry"
    /\ IF BindFails(pubPort, r)
       THEN /\ relay' = [relay EXCEPT ![r].pc = AfterRetryFailure, ![r].retryBind = "failed"]
            /\ pubPort' = pubPort
       ELSE /\ relay' = [relay EXCEPT ![r].pc = "bindPull", ![r].retryBind = "ok"]
            /\ pubPort' = r
    /\ UNCHANGED <<stopEvent, th, lock, topic_i, pusher_i, partial, pipe, pubOut, pullPort,
                   sub, subq, stopper, substop, npub, sent, wire, relayed, received, calls,
                   appVars>>

\* listener.bind(...PUBLISHER_PULL_PORT): an occupied port raises ZMQError,
\* which nothing catches; else sleep(2) and the loop is reached
RelayBindPull(r) ==
    /\ relay[r].pc = "bindPull"
    /\ IF BindFails(pullPort, r)
       THEN /\ relay' = [relay EXCEPT ![r].pc = "crashed"]
            /\ pubPort' = IF pubPort = r THEN "free" ELSE pubPort
            /\ pullPort' = pullPort
       ELSE /\ relay' = [relay EXCEPT ![r].pc = "check", ![r].entered = TRUE]
            /\ pullPort' = r
            /\ pubPort' = pubPort
    /\ UNCHANGED <<stopEvent, th, lock, topic_i, pusher_i, partial, pipe, pubOut, sub,
                   subq, stopper, substop, npub, sent, wire, relayed, received, calls,
                   appVars>>

(* ---------------------------- specifications --------------------------- *)
\* Spec: one Pusher used by one thread publishes strings on the three
\* topics; the relay R1 relays; the thread Subscriber S1 (topic "ab") and
\* the process Subscriber S2 (topic "a") dispatch.
Next ==
    \/ \E d \in Strs, topic \in Topics : PusherPublishTopic("T1", "P1", d, topic)
    \/ PusherPublishMeta("T1")
    \/ PusherPublishData("T1")
    \/ RelayLoopTest("R1")
    \/ RelayRecvTopic("R1")
    \/ RelayRecvMeta("R1")
    \/ RelayRecvData("R1")
    \/ RelayExitTest("R1")
    \/ \E s \in Subs : SubLoopTest(s)
    \/ \E s \in Subs : SubPollEmpty(s)
    \/ \E s \in Subs : SubRecv(s)

Spec == Init /\ [][Next]_vars

\* SpecArr: as Spec, with numeric arrays published on topic "ab", which
\* both subscribers receive.
NextArr ==
    \/ \E d \in Arrays : PusherPublishTopic("T1", "P1", d, TopicAB)
    \/ PusherPublishMeta("T1")
    \/ PusherPublishData("T1")
    \/ RelayLoopTest("R1")
    \/ RelayRecvTopic("R1")
    \/ RelayRecvMeta("R1")
    \/ RelayRecvData("R1")
    \/ RelayExitTest("R1")
    \/ \E s \in Subs : SubLoopTest(s)
    \/ \E s \in Subs : SubPollEmpty(s)
    \/ \E s \in Subs : SubRecv(s)

SpecArr == Init /\ [][NextArr]_vars

\* SpecFan: two threads share the Pusher P1 and the Listener L1 and publish
\* "x" on topic "a"; the relay R1 relays; no subscriber.
NextFan ==
    \/ \E t \in Threads : PusherPublishTopic(t, "P1", PyStr("x"), TopicA)
    \/ \E t \in Threads : PusherPublishMeta(t)
    \/ \E t \in Threads : PusherPublishData(t)
    \/ \E t \in Threads : ListenerPublishTopic(t, "L1", PyStr("x"), TopicA)
    \/ \E t \in Threads : ListenerPublishData(t)
    \/ RelayLoopTest("R1")
    \/ RelayRecvTopic("R1")
    \/ RelayRecvMeta("R1")
    \/ RelayRecvData("R1")
    \/ RelayExitTest("R1")

SpecFan == InitNoSubs /\ [][NextFan]_vars

\* SpecBind: relay processes are started one after the other on the same
\* ports; a Pusher publishes strings on the empty topic; no subscriber.
NextBind ==
    \/ \E r \in Relays : RelayStart(r)
    \/ \E r \in Relays : RelayBind(r)
    \/ \E r \in Relays : RelayRecover(r)
    \/ \E r \in Relays : RelayRetry(r)
    \/ \E r \in Relays : RelayBindPull(r)
    \/ \E r \in Relays : RelayLoopTest(r)
    \/ \E r \in Relays : RelayRecvTopic(r)
    \/ \E r \in Relays : RelayRecvMeta(r)
    \/ \E r \in Relays : RelayRecvData(r)
    \/ \E r \in Relays : RelayExitTest(r)
    \/ \E d \in Strs : PusherPublishTopic("T1", "P1", d, TopicEmpty)
    \/ PusherPublishMeta("T1")
    \/ PusherPublishData("T1")

SpecBind == InitBind /\ [][NextBind]_vars

\* SpecStop: the relay R1 runs, a Pusher publishes strings on the empty
\* topic and on "a", and Publisher.stop() is called. The relay process and
\* the caller of stop() are scheduled: a step of theirs that stays possible
\* is taken.
NextStop ==
    \/ \E d \in Strs, topic \in {TopicEmpty, TopicA} : PusherPublishTopic("T1", "P1", d, topic)
    \/ PusherPublishMeta("T1")
    \/ PusherPublishData("T1")
    \/ RelayLoopTest("R1")
    \/ RelayRecvTopic("R1")
    \/ RelayRecvMeta("R1")
    \/ RelayRecvData("R1")
    \/ RelayExitTest("R1")
    \/ StopCall("R1")
    \/ StopReturn("R1")

SpecStop ==
    /\ InitNoSubs
    /\ [][NextStop]_vars
    /\ WF_vars(RelayLoopTest("R1"))
    /\ WF_vars(RelayRecvTopic("R1"))
    /\ WF_vars(RelayRecvMeta("R1"))
    /\ WF_vars(RelayRecvData("R1"))
    /\ WF_vars(RelayExitTest("R1"))
    /\ WF_vars(StopReturn("R1"))

\* SpecSubStop: the relay R1 runs, a Pusher publishes "x" on topic "ab",
\* the subscribers S1 and S2 dispatch, and stop() is called on them. The
\* relay, the subscribers and the callers of stop() are scheduled.
NextSubStop ==
    \/ PusherPublishTopic("T1", "P1", PyStr("x"), TopicAB)
    \/ PusherPublishMeta("T1")
    \/ PusherPublishData("T1")
    \/ RelayLoopTest("R1")
    \/ RelayRecvTopic("R1")
    \/ RelayRecvMeta("R1")
    \/ RelayRecvData("R1")
    \/ RelayExitTest("R1")
    \/ \E s \in Subs : SubLoopTest(s)
    \/ \E s \in Subs : SubPollEmpty(s)
    \/ \E s \in Subs : SubRecv(s)
    \/ \E s \in Subs : SubStopCall(s)
    \/ \E s \in Subs : SubStopReturn(s)

SpecSubStop ==
    /\ Init
    /\ [][NextSubStop]_vars
    /\ WF_vars(RelayLoopTest("R1"))
    /\ WF_vars(RelayRecvTopic("R1"))
    /\ WF_vars(RelayRecvMeta("R1"))
    /\ WF_vars(RelayRecvData("R1"))
    /\ WF_vars(RelayExitTest("R1"))
    /\ \A s \in Subs : WF_vars(SubLoopTest(s))
    /\ \A s \in Subs : WF_vars(SubPollEmpty(s))
    /\ \A s \in Subs : WF_vars(SubRecv(s))
    /\ \A s \in Subs : WF_vars(SubStopReturn(s))

\* SpecCb: as Spec, with payloads on which a callback raises, published on
\* topic "ab", which both subscribers receive.
CbPayloads == { PyStr("x"), PyStr("bad1"), PyStr("bad2") }

NextCb ==
    \/ \E d \in CbPayloads : PusherPublishTopic("T1", "P1", d, TopicAB)
    \/ PusherPublishMeta("T1")
    \/ PusherPublishData("T1")
    \/ RelayLoopTest("R1")
    \/ RelayRecvTopic("R1")
    \/ RelayRecvMeta("R1")
    \/ RelayRecvData("R1")
    \/ RelayExitTest("R1")
    \/ \E s \in Subs : SubLoopTest(s)
    \/ \E s \in Subs : SubPollEmpty(s)
    \/ \E s \in Subs : SubRecv(s)

SpecCb == Init /\ [][NextCb]_vars

\* SpecSig: the signal "sig" of the class M is reached through the
\* instances A and B: its topic is read, callbacks are connected, it is
\* emitted. The relay R1 runs; no subscriber was constructed beforehand.
NextSig ==
    \/ \E i \in Instances : SignalGet(i)
    \/ \E i \in Instances, func \in {"f", "g"} : SignalConnect(i, func)
    \/ \E i \in Instances, args \in {"x", "y"} : SignalEmit(i, args)

SpecSig == InitNoSubs /\ [][NextSig]_vars

\* SpecDev: Devices, Actuators and a Sensor are constructed; drivers are
\* added, actuators and the sensor attached, values applied, set and read.
Values == { Quantity(0), Quantity(1), Number(1), Text(1), Quantity(3) }
ValueDicts ==
    { <<[key |-> "k1", val |-> v1], [key |-> "k2", val |-> v2]>> :
          v1 \in {Quantity(1), Number(1), Text(1)}, v2 \in {Quantity(2), Number(2)} }

NextDev ==
    \/ \E d \in Devices : DeviceAddDriver(d)
    \/ \E d \in Devices, items \in ValueDicts, bad \in SUBSET Keys :
          DeviceApplyValues(d, items, bad)
    \/ \E a \in Actuators, d \in Devices : ActuatorSetDevice(a, d)
    \/ \E a \in Actuators, v \in Values, driverFails \in BOOLEAN :
          ActuatorSetValue(a, v, driverFails)
    \/ \E x \in Sensors, d \in Devices \cup {"None"} : SensorAddDevice(x, d)
    \/ \E x \in Sensors : SensorReadValue(x)

SpecDev == InitNoSubs /\ [][NextDev]_vars

\* SpecProp: keys of a Properties object are assigned, updated and upgraded.
NextProp ==
    \/ \E k \in Keys, v \in DeviceValues : PropertiesSetItem(k, v)
    \/ \E v1, v2 \in DeviceValues :
          PropertiesUpdate(<<[key |-> "k1", val |-> v1], [key |-> "k2", val |-> v2]>>)
    \/ \E k \in Keys, v \in DeviceValues : PropertiesUpgrade(<<[key |-> k, val |-> v]>>)
    \/ \E v1, v2 \in DeviceValues :
          PropertiesUpgrade(<<[key |-> "k1", val |-> v1], [key |-> "k2", val |-> v2]>>)

SpecProp == InitNoSubs /\ [][NextProp]_vars

\* SpecSet: the Setting and the Feature with setting=True of a model class
\* are read, set and forced through the instances A and B, whose
\* instruments change what they hold.
NextSet ==
    \/ \E i \in Instances : SettingGet(i)
    \/ \E i \in Instances, v \in DeviceValues \cup {NoValue} : SettingSet(i, v)
    \/ \E i \in Instances : FeatureGet(i)
    \/ \E i \in Instances, v \in DeviceValues \cup {NoValue} : FeatureSet(i, v)
    \/ \E i \in Instances, name \in SettingNames, v \in DeviceValues :
          InstrumentChange(i, name, v)

SpecSet == InitNoSubs /\ [][NextSet]_vars

\* SpecAct: two threads access the Action of a model class through the
\* instances A and B and call it; the executor of the class runs the work.
NextAct ==
    \/ \E t \in Threads, i \in Instances : ActionGet(t, i)
    \/ \E t \in Threads : ActionCall(t)
    \/ \E w \in Workers : ExecutorStart(w)
    \/ \E w \in Workers : ExecutorFinish(w)

SpecAct == InitNoSubs /\ [][NextAct]_vars

\* SpecFlag: the relay R1 runs, a Pusher publishes "x" on topic "ab", the
\* subscribers S1 and S2 dispatch, and the stop event is set from outside.
\* The relay and the subscribers are scheduled.
NextFlag ==
    \/ PusherPublishTopic("T1", "P1", PyStr("x"), TopicAB)
    \/ PusherPublishMeta("T1")
    \/ PusherPublishData("T1")
    \/ RelayLoopTest("R1")
    \/ RelayRecvTopic("R1")
    \/ RelayRecvMeta("R1")
    \/ RelayRecvData("R1")
    \/ RelayExitTest("R1")
    \/ \E s \in Subs : SubLoopTest(s)
    \/ \E s \in Subs : SubPollEmpty(s)
    \/ \E s \in Subs : SubRecv(s)
    \/ StopEventSet

SpecFlag ==
    /\ Init
    /\ [][NextFlag]_vars
    /\ WF_vars(RelayLoopTest("R1"))
    /\ WF_vars(RelayRecvTopic("R1"))
    /\ WF_vars(RelayRecvMeta("R1"))
    /\ WF_vars(RelayRecvData("R1"))
    /\ WF_vars(RelayExitTest("R1"))
    /\ \A s \in Subs : WF_vars(SubLoopTest(s))
    /\ \A s \in Subs : WF_vars(SubPollEmpty(s))
    /\ \A s \in Subs : WF_vars(SubRecv(s))

\* SpecProg: start_publisher() is called, experiments and applications
\* are constructed and experiments finalized, in any order; the Publisher
\* processes they start bind and relay; a Pusher publishes strings on the
\* empty topic.
NextProg ==
    \/ StartPublisher
    \/ ExperimentCall
    \/ \E initialize, rehook \in BOOLEAN : ExperimentAppInit(initialize, rehook)
    \/ \E op \in {"finalize", "__exit__", "__del__"} : ExperimentFinalize(op)
    \/ \E r \in Relays : RelayBind(r)
    \/ \E r \in Relays : RelayRecover(r)
    \/ \E r \in Relays : RelayRetry(r)
    \/ \E r \in Relays : RelayBindPull(r)
    \/ \E r \in Relays : RelayLoopTest(r)
    \/ \E r \in Relays : RelayRecvTopic(r)
    \/ \E r \in Relays : RelayRecvMeta(r)
    \/ \E r \in Relays : RelayRecvData(r)
    \/ \E r \in Relays : RelayExitTest(r)
    \/ \E d \in Strs : PusherPublishTopic("T1", "P1", d, TopicEmpty)
    \/ PusherPublishMeta("T1")
    \/ PusherPublishData("T1")

SpecProg == InitBind /\ [][NextProg]_vars

\* SpecCam: continuous_reads() and stop_continuous_reads() are called on a
\* camera, in either order; the reader thread runs.
NextCam ==
    \/ ContinuousReads
    \/ ReaderSetRunning
    \/ ReaderSetKeep
    \/ ReaderTest
    \/ \E n \in 0..MaxBuffers : ReaderRead(n)
    \/ ReaderEmit
    \/ StopContinuousReads
    \/ StopReturns

SpecCam == InitNoSubs /\ [][NextCam]_vars

\* SpecExp: an Experiment loads and initializes its devices, a measurement
\* initializes its devices; the hardware of any device may answer with an
\* error.
DeviceOrders == { <<"D1", "D2">>, <<"D2", "D1">>, <<"D1">> }

NextExp ==
    \/ \E d \in Devices, fault \in Faults : DeviceInitializeDriver(d, fault)
    \/ \E devs \in DeviceOrders, faults \in [Devices -> Faults] : ExpLoadDevices(devs, faults)
    \/ \E faults \in [Devices -> Faults] : ExpInitializeDevices(faults)
    \/ \E devs \in DeviceOrders, faults \in [Devices -> Faults], defaults \in SUBSET Devices :
          MeasurementInitializeDevices(devs, faults, defaults)

SpecExp == InitNoSubs /\ [][NextExp]_vars

(* ------------------------------- claims -------------------------------- *)
Last(q) == q[Len(q)]

\* the subscriber exit sentinel, as a payload
IsSentinel(data) == data.kind = "str" /\ data.s = SUBSCRIBER_EXIT_KEYWORD

\* C1: a Subscriber registered with topic t1 never has its callback invoked
\* with a message that was published on another topic t2, for the thread
\* Subscriber and for the process Subscriber.
C1_TopicIsolation ==
    \A s \in Subs : \A k \in 1..Len(calls[s]) :
        sent[calls[s][k].uid].topic = SubTopic(s)

\* C2: a subscriber exit sentinel stops only the subscribers registered on
\* the topic it was published on: a subscriber whose loop ended on a
\* sentinel received it on its own topic.
C2_SelectiveShutdown ==
    \A s \in Subs :
        (/\ sub[s] = "closed"
         /\ received[s] # <<>>
         /\ IsSentinel(SubDecode(Last(received[s]))))
        => sent[Last(received[s])[3].uid].topic = SubTopic(s)

\* C3: the payloads one Pusher published reach a subscriber's callback in
\* the order in which they were published.
C3_PerProducerOrder ==
    \A s \in Subs : \A j, k \in 1..Len(calls[s]) :
        j < k => calls[s][j].uid < calls[s][k].uid

\* C3 witness: a callback was invoked for three messages
C3_Witness == \E s \in Subs : Len(calls[s]) >= 3

\* the relay exit message: empty topic, generic payload, the exit keyword
IsExitMessage(m) ==
    /\ m[1].s = TopicEmpty
    /\ ~m[2].meta.numpy
    /\ m[3].enc = "pickle"
    /\ m[3].obj = PyStr(PUBLISHER_EXIT_KEYWORD)

\* C4: the relay rebroadcasts the exit message before it leaves its loop,
\* and relays nothing after it: the stop flag is set only once the exit
\* message is the last message broadcast, an exit message is never followed
\* by another broadcast, and the relay reads no frame after it.
C4_RelayExit ==
    /\ \A k \in 1..(Len(relayed) - 1) : ~IsExitMessage(relayed[k])
    /\ stopEvent => (relayed # <<>> /\ IsExitMessage(Last(relayed)))
    /\ (relayed # <<>> /\ IsExitMessage(Last(relayed)))
          => relay["R1"].pc \in {"checkExit", "check", "done"}
    /\ relay["R1"].pc = "done" => stopEvent

\* C4 witness: the relay left its loop on the exit message while a message
\* pushed after it is still waiting, unrelayed
C4_Witness ==
    /\ relay["R1"].pc = "done"
    /\ IsExitMessage(Last(relayed))
    /\ pipe["P1"] # <<>>

\* the callback invocations that the received messages call for: one per
\* message that is not the sentinel, with the decoded payload
RECURSIVE Dispatched(_)
Dispatched(ms) ==
    IF ms = <<>> THEN <<>>
    ELSE IF IsSentinel(SubDecode(Head(ms))) THEN Dispatched(Tail(ms))
    ELSE <<[topic |-> Head(ms)[1].s, data |-> SubDecode(Head(ms)), uid |-> Head(ms)[3].uid]>>
         \o Dispatched(Tail(ms))

\* C5: the callback is invoked exactly once, with the decoded payload, for
\* every received message that is not the subscriber exit sentinel; the
\* sentinel is never passed to the callback and nothing is received or
\* dispatched after it.
C5_ExactlyOnce ==
    \A s \in Subs :
        /\ calls[s] = Dispatched(received[s])
        /\ \A k \in 1..Len(calls[s]) : ~IsSentinel(calls[s][k].data)
        /\ \A k \in 1..(Len(received[s]) - 1) : ~IsSentinel(SubDecode(received[s][k]))

\* C5 witness: a subscriber dispatched a message and then stopped on the
\* sentinel while a later message was waiting on its socket
C5_Witness ==
    \E s \in Subs :
        /\ Len(calls[s]) >= 1
        /\ sub[s] = "closed"
        /\ IsSentinel(SubDecode(Last(received[s])))
        /\ subq[s] # <<>>

\* C6: a numeric array published with Pusher.publish reaches the callback
\* with the element type, the shape and the values of the published array,
\* and the relay broadcasts topic, metadata and payload as they were pushed.
C6_NumericRoundTrip ==
    /\ \A s \in Subs : \A k \in 1..Len(calls[s]) :
         LET orig == sent[calls[s][k].uid].data
             got == calls[s][k].data
         IN  IsNdArray(orig) =>
               /\ IsNdArray(got)
               /\ got.dtype = orig.dtype
               /\ got.shape = orig.shape
               /\ got.elems = orig.elems
    /\ \A k \in 1..Len(relayed) :
         LET m == relayed[k]
             orig == sent[m[3].uid]
         IN  IsNdArray(orig.data) =>
               /\ m[1].s = orig.topic
               /\ m[2].meta.numpy
               /\ m[2].meta.dtype = orig.data.dtype
               /\ m[2].meta.shape = orig.data.shape
               /\ m[3].bytes = ToBuffer(orig.data)

FanInClients == Pushers \cup Listeners

\* C7: on one fan-in client instance the frames of one publish call are
\* sent contiguously: between two frames of one call there is no frame of
\* another call.
C7_PublishAtomic ==
    \A c \in FanInClients : \A i, j, k \in 1..Len(wire[c]) :
        (i < j /\ j < k /\ wire[c][i].uid = wire[c][k].uid)
            => wire[c][j].uid = wire[c][i].uid

\* the frames of q that end at position k form a message topic, metadata,
\* payload
IsTriple(q, k) ==
    /\ k >= 3
    /\ q[k - 2].enc = "str" /\ q[k - 2].more
    /\ q[k - 1].enc = "json" /\ q[k - 1].more
    /\ q[k].enc \in {"pickle", "raw"}
    /\ (k > 3 => ~q[k - 3].more)

\* C8: every message a fan-in client pushes is topic, then metadata, then
\* payload, and the relay loop never fails on a frame of the wrong kind.
C8_Framing ==
    /\ \A c \in Clients : \A k \in 1..Len(wire[c]) :
         ~wire[c][k].more => IsTriple(wire[c], k)
    /\ \A r \in Relays : relay[r].pc # "crashed"

\* C9: a relay whose first bind of the fan-out port fails sends one exit
\* request (empty topic, exit keyword) to the fan-in port and binds once
\* more; a second failure is fatal and the loop is never reached; a relay
\* whose first bind succeeds sends no exit request.
C9_BindRecovery ==
    \A r \in Relays :
        /\ wire[TempSocket(r)] \in {<<>>, ExitRequest}
        /\ wire[TempSocket(r)] # <<>> => relay[r].firstBind = "failed"
        /\ (relay[r].firstBind = "failed" /\ relay[r].pc # "recover")
              => wire[TempSocket(r)] = ExitRequest
        /\ relay[r].retryBind # "none"
              => (relay[r].firstBind = "failed" /\ wire[TempSocket(r)] = ExitRequest)
        /\ relay[r].retryBind = "failed" => (relay[r].pc = "fatal" /\ ~relay[r].entered)
        /\ relay[r].pc = "fatal" => relay[r].retryBind = "failed"
        /\ relay[r].firstBind = "ok"
              => (wire[TempSocket(r)] = <<>> /\ relay[r].retryBind = "none")
        /\ relay[r].entered => (relay[r].firstBind = "ok" \/ relay[r].retryBind = "ok")

\* C9 witness: a relay found the port taken, sent its exit request, found
\* the port still taken and ended with the fatal error
C9_Witness ==
    \E r \in Relays :
        /\ relay[r].pc = "fatal"
        /\ relay[r].firstBind = "failed"
        /\ wire[TempSocket(r)] = ExitRequest

\* C10: once stop() is called while the relay loop runs, the relay process
\* ends and stop() returns, and stop() returns only after the relay process
\* has ended.
C10_StopTerminates ==
    /\ [](stopper = "returned" => relay["R1"].pc \in Dead)
    /\ (stopper = "joining") ~> (relay["R1"].pc \in Dead)
    /\ (stopper = "joining") ~> (stopper = "returned")

\* C10 witness: stop() returned after the relay relayed the exit message of
\* stop() and left its loop
C10_Witness ==
    /\ stopper = "returned"
    /\ relay["R1"].pc = "done"
    /\ relayed # <<>>
    /\ Last(relayed)[3].uid = 0

\* C11: stop() called on a running subscriber publishes the subscriber exit
\* sentinel on the subscriber's own topic and does not raise; the
\* subscriber's loop then ends and stop() returns, and stop() returns only
\* after the loop has ended.
C11_SubscriberStop ==
    /\ [](\A s \in Subs : substop[s] # "raised")
    /\ [](\A s \in Subs : \A k \in 1..Len(wire[SubStopPusher(s)]) :
             wire[SubStopPusher(s)][k].enc = "str"
                => wire[SubStopPusher(s)][k].s = SubTopic(s))
    /\ [](\A s \in Subs : substop[s] = "returned" => Ended(s))
    /\ \A s \in Subs : (substop[s] = "joining") ~> Ended(s)
    /\ \A s \in Subs : (substop[s] = "joining") ~> (substop[s] = "returned")

\* C12: a callback that raises ends the run loop of its subscriber: the
\* callback is invoked for no later message and the subscriber receives
\* nothing more; the step changes neither the relay nor another subscriber.
C12_CallbackFailure ==
    /\ [](\A s \in Subs :
            /\ \A k \in 1..(Len(calls[s]) - 1) : ~FuncRaises(s, calls[s][k].data)
            /\ (calls[s] # <<>> /\ FuncRaises(s, Last(calls[s]).data))
                  => (/\ sub[s] = "crashed"
                      /\ Last(received[s])[3].uid = Last(calls[s]).uid))
    /\ [][\A s \in Subs :
            (sub[s] = "recv" /\ sub'[s] = "crashed")
               => (/\ relay' = relay
                   /\ stopEvent' = stopEvent
                   /\ \A o \in Subs \ {s} : sub'[o] = sub[o] /\ subq'[o] = subq[o])]_vars

\* C12 witness: the callback of one subscriber raised while a later message
\* was waiting on its socket, and the relay and the other subscriber went
\* on: the other subscriber's callback was invoked for a later message
C12_Witness ==
    \E s \in Subs : \E o \in Subs \ {s} :
        /\ sub[s] = "crashed"
        /\ calls[s] # <<>>
        /\ FuncRaises(s, Last(calls[s]).data)
        /\ subq[s] # <<>>
        /\ calls[o] # <<>>
        /\ Last(calls[o]).uid > Last(calls[s]).uid
        /\ Looping("R1")

\* C13: the topic of the signal reached through one instance is the same
\* on every access, and the topics reached through two distinct live
\* instances of the class differ.
C13_TopicUnique ==
    /\ \A i \in Instances : Cardinality(sigHist.topics[i]) <= 1
    /\ \A a, b \in Instances : a # b => sigHist.topics[a] \cap sigHist.topics[b] = {}

\* C14: an emit on a signal with no connected subscriber creates no Pusher
\* and sends nothing: the signal's pusher and subscriber list and every
\* socket are as before.
C14_ZeroSubscriberEmit ==
    [][(sigHist'.emits # sigHist.emits /\ Len(signal.subscribers) = 0)
          => (/\ signal'.pusher = signal.pusher
              /\ signal'.subscribers = signal.subscribers
              /\ sigHist'.pushers = sigHist.pushers
              /\ sigHist'.published = sigHist.published
              /\ wire' = wire /\ pipe' = pipe /\ partial' = partial)]_vars

\* C14 witness: emit was called on a signal that has a Pusher and no
\* subscriber, and nothing was sent
C14_Witness ==
    /\ sigHist.emits > 0
    /\ signal.pusher # "None"
    /\ Len(signal.subscribers) = 0
    /\ wire[SignalPusher] = <<>>

\* C15: connect creates at most one Pusher per signal and does not raise;
\* every connect call registers one callback, and an emit made once a
\* callback is connected publishes on the signal's topic.
C15_Connect ==
    /\ sigHist.pushers <= 1
    /\ sigHist.connects > 0 => signal.pusher # "None"
    /\ sigHist.raised = 0
    /\ Len(signal.subscribers) = sigHist.connects
    /\ Len(wire[SignalPusher]) = 3 * sigHist.published
    /\ \A k \in 1..Len(wire[SignalPusher]) :
         wire[SignalPusher][k].enc = "str" => wire[SignalPusher][k].s = SignalTopic(signal)

\* C16: apply_values on a device with a driver, with a dictionary in which
\* setting one key on the driver raises, sets every other key of the
\* dictionary on the driver and returns without an exception.
C16_PartialFailure ==
    (/\ lastCall.op = "apply_values"
     /\ lastCall.ready
     /\ Cardinality(lastCall.bad) = 1)
    => (/\ lastCall.raised = "none"
        /\ lastCall.applied = lastCall.keys \ lastCall.bad)

\* C17: setting an actuator's value, reading a sensor's value or applying
\* values while no device is attached or the device has no driver raises an
\* exception and makes no call on a driver.
C17_NoValueBeforeDriver ==
    /\ (lastCall.op \in {"actuator.value=", "sensor.value", "apply_values"} /\ ~lastCall.ready)
          => (lastCall.raised # "none" /\ lastCall.driverCalls = 0)
    /\ (\A d \in Devices : device[d].driver = "None") => driverLog = <<>>

\* C17 witness: the value of an actuator attached to a device without
\* driver was set and the call raised
C17_Witness ==
    /\ lastCall.op = "actuator.value="
    /\ actuator[lastCall.target].device # "None"
    /\ ~lastCall.ready
    /\ lastCall.raised = "AttributeError"

\* C18: when initialize_driver raises for one device inside load_devices,
\* Experiment.initialize_devices or measurement.initialize_devices, the
\* initialization of every other device of the call is still attempted.
C18_DeviceIsolation ==
    (/\ lastCall.op \in {"load_devices", "initialize_devices", "measurement.initialize_devices"}
     /\ lastCall.bad # {})
    => {lastCall.attempted[n] : n \in 1..Len(lastCall.attempted)} = lastCall.keys

\* C19: an assignment or update records the new value and marks the key
\* without changing the stored value, which stays that of the last upgrade
\* (None before any); an upgrade stores the value as value and new_value and
\* clears the mark; a key is in to_update() exactly when it was assigned
\* after its last upgrade.
C19_PropertiesBookkeeping ==
    /\ \A k \in Keys :
         config[k].present =>
           /\ GetItem(config, k) = propHist.upgraded[k]
           /\ config[k].to_update = propHist.pending[k]
           /\ ~config[k].to_update => config[k].new_value = config[k].value
    /\ ToUpdate(config) = {k \in Keys : propHist.pending[k]}
    /\ [][\A k \in Keys, v \in DeviceValues :
            PropertiesSetItem(k, v)
               => (/\ config'[k].new_value = v
                   /\ config'[k].to_update
                   /\ config'[k].value = (IF config[k].present THEN config[k].value ELSE NoValue))]_vars

\* C19 witness: a key was upgraded and then assigned another value: it is
\* marked, and the stored value is still that of the upgrade
C19_Witness ==
    \E k \in Keys :
        /\ config[k].present
        /\ config[k].to_update
        /\ config[k].value # NoValue
        /\ config[k].new_value # config[k].value

\* C20: once the value of a setting was read from the instrument, a read
\* returns that value without calling the getter, until an update is
\* forced; a forced update calls the getter and later reads return its
\* value.
C20_SettingCache ==
    /\ (setHist.op = "read" /\ setHist.known # NoValue)
          => (~setHist.getter /\ setHist.returned = setHist.known)
    /\ setHist.op = "force" => setHist.getter
    /\ setHist.lastRead["exposure_time"] # NoValue
          => setting.cache = setHist.lastRead["exposure_time"]
    /\ setHist.lastRead["max_width"] # NoValue
          => setting.value = setHist.lastRead["max_width"]

\* the workers that are inside an Action body
Busy == {w \in Workers : action.worker[w] # NoWork}

\* C21: calling an Action hands the method to the executor and runs nothing
\* in the caller; at most one Action body of the model runs at a time; the
\* bodies start in the order of the calls.
C21_ActionsSerialized ==
    /\ [](Cardinality(Busy) <= 1)
    /\ [](\A n \in 1..Len(actHist.started) : actHist.started[n] = n)
    /\ [][\A t \in Threads :
            ActionCall(t) => (/\ action'.worker = action.worker
                              /\ actHist'.started = actHist.started
                              /\ Len(action'.queue) = Len(action.queue) + 1)]_vars

\* C21 witness: one Action body runs while a later call waits in the
\* executor
C21_Witness ==
    /\ Busy # {}
    /\ action.queue # <<>>
    /\ Len(actHist.started) >= 1

\* the calls of apply_value that reached a driver for the actuator a
Applied(a) ==
    {n \in 1..Len(driverLog) : driverLog[n].call = "apply_value" /\ driverLog[n].key = a}

\* C22: after "actuator.value = v" succeeded on an actuator connected to a
\* device, the value getter returns v.
C22_ValueRoundTrip ==
    (/\ lastCall.op = "actuator.value="
     /\ lastCall.raised = "none")
    => ActuatorValue(lastCall.target) = Last(driverLog).val

\* C25: on an actuator with limits, an assignment above max or below min
\* raises without a call of apply_value, and every value that reached the
\* driver lies within the limits.
C25_ActuatorLimits ==
    /\ \A a \in Actuators :
         HasLimits(a) =>
           \A n \in Applied(a) : /\ driverLog[n].val.mag >= LimitMin(a).mag
                                 /\ driverLog[n].val.mag <= LimitMax(a).mag
    /\ [][\A a \in Actuators, v \in Values, driverFails \in BOOLEAN :
            (/\ ActuatorSetValue(a, v, driverFails)
             /\ HasLimits(a)
             /\ actuator[a].device # "None"
             /\ (v.mag > LimitMax(a).mag \/ v.mag < LimitMin(a).mag))
            => (lastCall'.raised = "Warning" /\ driverLog' = driverLog)]_vars

\* C25 witness: the actuator with limits is attached to a device that has
\* a driver, and an assignment outside the limits raised
C25_Witness ==
    /\ lastCall.op = "actuator.value="
    /\ lastCall.target = "A1"
    /\ lastCall.ready
    /\ lastCall.raised = "Warning"
    /\ lastCall.driverCalls = 0

\* C28: the method of an Action called through the instance A runs on A,
\* whatever was accessed between the attribute access and the call.
C28_ActionBinding ==
    \A n \in 1..Len(actHist.calls) : actHist.calls[n].instance = actHist.calls[n].via

\* an access to a setting through instance i: read, set, forced update
AccessThrough(i) ==
    \/ SettingGet(i)
    \/ FeatureGet(i)
    \/ \E v \in DeviceValues \cup {NoValue} : SettingSet(i, v) \/ FeatureSet(i, v)

\* C29: reading, setting or force-updating a setting through one instance
\* does not change the value that another instance reads for it.
C29_PerInstanceState ==
    [][\A i \in Instances : \A j \in Instances \ {i} :
         AccessThrough(i)
            => \A name \in SettingNames :
                  ReadValue(setting', j, name) = ReadValue(setting, j, name)]_vars

\* C24: once the stop event is set, the relay loop and every subscriber
\* loop exit, whether or not a message is sent afterwards.
C24_FlagShutdown ==
    stopEvent ~> (~Looping("R1") /\ \A s \in Subs : Ended(s))

\* C26: after stop() was called on a subscriber the relay loop keeps
\* running.
C26_RelaySurvivesStop ==
    (\E s \in Subs : substop[s] # "idle") => Looping("R1")

\* C23: at most one Publisher process is alive at any time.
C23_RelaySingleton == Cardinality({r \in Relays : Alive(r)}) <= 1

\* C27: every invocation of finalize() returns without raising, and once
\* one has returned the relay of the experiment is stopped.
C27_FinalizeRepeatable ==
    /\ program.finalizeRaised = 0
    /\ (program.finalized > 0 /\ stopper # "joining") => ~Alive(program.expPublisher)

\* C30: once stop_continuous_reads() has returned after a
\* continuous_reads() call, the read loop is not running, the flag
\* continuous_reads_running is false and no image is emitted.
C30_StopContinuousReads ==
    (camera.caller = "returned" /\ camera.covers)
    => (/\ camera.reader \notin {"test", "read", "emit"}
        /\ ~camera.continuous_reads_running
        /\ camera.emittedAfterStop = 0)

=============================================================================
